---- MODULE Spec2Model ----
(***************************************************************************)
(* Model of the WhatsApp <-> Telegram bridging engine (class               *)
(* TelegramBridge).  Source = WhatsApp, Sink = Telegram forum supergroup.  *)
(*                                                                         *)
(* The specifications of this module:                                      *)
(*   Spec       - topic lifecycle: syncMessage, getOrCreateTopic, the      *)
(*                forwarders and their heal-and-retry blocks, the Sink     *)
(*                deleting topics out of band;                             *)
(*   SpecFilter - the filter set and the outbound text paths;              *)
(*   SpecAuth   - operator authentication and its expiry.                  *)
(*   SpecRoute  - the dispatch of an inbound message to its forwarder;     *)
(*   SpecE2E    - one inbound group text from arrival to delivery;         *)
(*   SpecContacts - the contact directory and the events that write it;    *)
(*   SpecStore  - the Mapping Store, its document and the database;        *)
(*   SpecShutdown - timers and shutdown().                                 *)
(*                                                                         *)
(* Every action is one run of the event loop: the completion of the await  *)
(* a task is suspended in, followed by its continuation up to the next     *)
(* await (promise continuations are microtasks and run before any other    *)
(* I/O completion is delivered).                                           *)
(***************************************************************************)
EXTENDS Integers, Sequences, FiniteSets, TLC

\* ------------------------------------------------------------------ bounds
NTasks == 2          \* inbound events / API calls handled per behaviour
MaxDeletes == 2      \* topics the Sink deletes out of band per behaviour

\* --------------------------------------------------------------- constants
UserJid == "111@s.whatsapp.net"
GroupJid == "222@g.us"
Chats == {UserJid, GroupJid}
Tasks == 1..NTasks
NoTopic == 0         \* "no topic": null / undefined / absent map key

VARIABLES
  cfg,              \* config.telegram: "ok", "noChatId", "noToken"
  welcomeMessage,   \* config.telegram.features.welcomeMessage
  chatMappings,     \* this.chatMappings: chat -> topicId (NoTopic = absent)
  userMappings,     \* this.userMappings: participant -> messageCount (0 = absent)
  db,               \* global.db.bridge, the persisted document
  creatingTopics,   \* this.creatingTopics: chat -> index into promises[chat] (0 = absent)
  promises,         \* every creation promise ever made, per chat
  creation,         \* position of the running creation IIFE, per chat
  task,             \* the asynchronous tasks (one per inbound event / API call)
  sinkTopics,       \* topic ids that currently exist on the Sink
  sinkCreated,      \* sinkCreated[i] = chat that topic id i was created for
  createFails,      \* chat -> number of failed create-topic calls
  sinkDeletes,      \* chat -> number of its topics the Sink deleted
  filters,          \* this.filters: the set of blocked prefixes
  clearing,         \* a clearFilters call is suspended in its save
  addedSince,       \* addFilter ran since that clearFilters call cleared the set
  lastBlocked,      \* the text handleTelegramText blocked last (<<>> = none yet)
  out,              \* what the latest Sink-side handler did
  now,              \* Date.now(), in ms since the bridge was constructed
  ticks,            \* number of clock advances so far
  authenticatedUsers, \* this.authenticatedUsers: userId -> entry
  sudoUsers,        \* this.sudoUsers: set of id strings
  lastAuth,         \* userId -> time of the latest successful authenticateUser
  authOut,          \* the isUserAuthenticated call made at the current instant
  inbound,          \* the inbound message syncMessage dispatched last
  ran,              \* the forwarders syncMessage ran for it, in order
  contactMappings,  \* this.contactMappings: phone -> name (NoName = absent)
  e2e,              \* the syncMessage call of SpecE2E: where it stands, what it holds
  sinkLog,          \* the calls the Sink has accepted in SpecE2E, in order
  profilePicCache,  \* this.profilePicCache: chat -> url (NoPic = absent)
  disk,             \* the bridge document as database.save wrote it last
  offered,          \* the contact name the latest contact event brought
  storeOp,          \* what touched the Mapping Store last
  timers,           \* pending setTimeout callbacks, per kind
  messageQueue,     \* this.messageQueue: keys waiting for a read receipt (their number)
  shut,             \* where shutdown() stands
  afterShutdown,    \* what happened after shutdown() returned
  lastPresenceUpdate, \* this.lastPresenceUpdate: chat -> Date.now() of the last update (0 = absent)
  presenceTimeout,  \* this.presenceTimeout: the timer handle kept last
  pauseTimers,      \* the pending timers that send "paused"
  availableTimers,  \* the pending timers that send "available"
  handling,         \* chat -> where the handler of an operator's message stands
  presenceLog,      \* the presence updates handed to the Source, in order
  presenceCall,     \* the latest sendPresence call
  lastTyping,       \* the latest sendTypingPresence call
  typed,            \* how many operator messages reached sendTypingPresence
  receiptQueue,     \* this.messageQueue.get(chatJid): the keys of one conversation, in order
  receiptTimers,    \* the pending timers of queueMessageForReadReceipt (their number)
  reading,          \* the processReadReceipts calls suspended in readMessages (their number)
  readLog,          \* the batches passed to readMessages, in order
  enqueued,         \* how many keys were enqueued; the keys are 1..enqueued
  readFailed,       \* whether a readMessages call has thrown
  activeCallNotifications, \* this.activeCallNotifications: the call keys held back
  callTimers,       \* the pending timers that delete a call key
  callLog,          \* the call events handled, in order
  callTopic,        \* chatMappings.get("call@broadcast"), NoTopic when absent
  statusMessageMapping, \* this.statusMessageMapping: pairs of Sink message id and status key
  statusSink,       \* the messages the Sink accepted in the status topic, in order
  statusTopic,      \* chatMappings.get("status@broadcast"), NoTopic when absent
  status,           \* the handleStatusMessage call in progress
  statusSeen,       \* how many status messages have arrived
  reply,            \* the handleStatusReply call in progress
  replies,          \* how many operator replies have arrived
  sourceSends,      \* the whatsappClient.sendMessage calls, in order
  topicVerificationCache, \* this.topicVerificationCache: topic -> "true", "false", "none" when absent
  pass,             \* the recreateMissingTopics call in progress
  made,             \* how many topics recreateMissingTopics has created
  tempDir,          \* the files in this.tempDir
  media,            \* the handleWhatsAppMedia call in progress
  mediaSeen,        \* how many media messages have arrived
  downloads,        \* how many downloads have returned a buffer
  mediaSink,        \* the media messages the Sink accepted, in order
  sendOutgoingMessages,  \* config.telegram.features.sendOutgoingMessages
  sync,             \* the syncMessage call in hand
  syncSeen,         \* messages handed to syncMessage so far
  syncSink,         \* what the Sink accepted from syncMessage, in order
  syncMade,         \* the createForumTopic calls, by the message they were made for
  syncProfiles,     \* the createUserMapping calls, by message
  syncQueued,       \* the keys given to queueMessageForReadReceipt, by message
  restoring,        \* the /restore command in hand
  periodic          \* runs of the 5-minute save interval so far

lifecycleVars == <<cfg, welcomeMessage, chatMappings, userMappings, db,
                   creatingTopics, promises, creation, task, sinkTopics, sinkCreated,
                   createFails, sinkDeletes>>

filterVars == <<filters, clearing, addedSince, lastBlocked, out>>

authVars == <<now, ticks, authenticatedUsers, sudoUsers, lastAuth, authOut>>

routeVars == <<inbound, ran>>

\* the variables of the specifications other than Spec, SpecFilter and SpecAuth
e2eVars == <<contactMappings, e2e, sinkLog>>

storeVars == <<profilePicCache, disk, offered, storeOp>>

shutdownVars == <<timers, messageQueue, shut, afterShutdown>>

presenceVars == <<lastPresenceUpdate, presenceTimeout, pauseTimers, availableTimers, handling,
                  presenceLog, presenceCall, lastTyping, typed>>

receiptVars == <<receiptQueue, receiptTimers, reading, readLog, enqueued, readFailed>>

callVars == <<activeCallNotifications, callTimers, callLog, callTopic>>

statusVars == <<statusMessageMapping, statusSink, statusTopic, status, statusSeen, reply,
                replies, sourceSends>>

recreateVars == <<topicVerificationCache, pass, made>>

\* the variables of SpecPresence and of the specifications after it
mediaVars == <<tempDir, media, mediaSeen, downloads, mediaSink>>

syncVars == <<sendOutgoingMessages, sync, syncSeen, syncSink, syncMade, syncProfiles, syncQueued>>

restoreVars == <<restoring, periodic>>

lateVars == <<presenceVars, receiptVars, callVars, statusVars, recreateVars, mediaVars,
              syncVars, restoreVars>>

auxVars == <<routeVars, e2eVars, storeVars, shutdownVars, lateVars>>

vars == <<lifecycleVars, filterVars, authVars, auxVars>>

\* ----------------------------------------------------------------- helpers
IsGroup(c) == c = GroupJid

\* this.telegramBot is created by initialize() only when token and chat id
\* are both configured
BotReady == cfg = "ok"

ChatIdConfigured == cfg # "noChatId"

\* saveMappingsToDb: the document written to global.db.bridge
saveMappingsToDb(cm, um, fl) ==
  [chatMappings |-> cm, userMappings |-> um, filters |-> {f \in fl : f # <<>>}]

IsMapped_Skipped(c) == FALSE
IsMapped(c) == chatMappings[c] # NoTopic

HasPendingCreation_Skipped(c) == FALSE
HasPendingCreation(c) == creatingTopics[c] # 0

\* number of creation promises of chat c that have resolved so far
Epoch(c) == Cardinality({i \in 1..Len(promises[c]) : promises[c][i].state = "resolved"})

\* findWhatsAppJidByTopic / the lookup in sendSimpleMessage: the chats mapped to a topic
JidsOfTopic(tp) == {c \in Chats : chatMappings[c] = tp}

Active(tk) == tk.pc \notin {"idle", "done"}

IdleTask == [pc |-> "idle", kind |-> "none", chat |-> "none", cont |-> "first",
             topic |-> NoTopic, jc |-> "none", ret |-> NoTopic, retd |-> FALSE,
             epoch |-> -1, hit0 |-> FALSE, solo |-> TRUE,
             sends |-> 0, tnfs |-> 0, errs |-> 0, dels |-> 0, heals |-> 0,
             creates |-> 0, delivered |-> NoTopic]

AfterTopic_RetryAnyway(tk, v) ==
  LET r == [tk EXCEPT !.ret = v, !.retd = TRUE] IN
  IF tk.kind = "api" THEN [r EXCEPT !.pc = "done"]
  ELSE IF tk.cont = "heal" /\ tk.kind = "text" THEN [r EXCEPT !.pc = "retry", !.topic = v]
  ELSE IF v = NoTopic THEN [r EXCEPT !.pc = "done"]
  ELSE [r EXCEPT !.pc = "send", !.topic = v]

\* The caller's continuation after getOrCreateTopic returned v
AfterTopic(tk, v) ==
  LET r == [tk EXCEPT !.ret = v, !.retd = TRUE] IN
  IF tk.kind = "api" THEN [r EXCEPT !.pc = "done"]
  ELSE IF v = NoTopic THEN [r EXCEPT !.pc = "done"]
  ELSE IF tk.cont = "heal" /\ tk.kind = "text" THEN [r EXCEPT !.pc = "retry", !.topic = v]
  ELSE [r EXCEPT !.pc = "send", !.topic = v]

\* Resolve the pending promise of chat c with value v: every task awaiting it resumes
Wake(tf, c, v) ==
  [t \in Tasks |-> IF tf[t].pc = "awaitTopic" /\ tf[t].jc = c THEN AfterTopic(tf[t], v) ELSE tf[t]]

\* getOrCreateTopic(chatJid) called by task t; tf is the task table and tk the
\* caller's own record at the moment of the call
getOrCreateTopic(tf, t, c, tk0) ==
  LET tk == [tk0 EXCEPT !.jc = c, !.retd = FALSE,
                        !.epoch = IF IsMapped(c) THEN -1 ELSE Epoch(c)] IN
  IF IsMapped(c) THEN
    /\ task' = [tf EXCEPT ![t] = AfterTopic(tk, chatMappings[c])]
    /\ UNCHANGED <<creatingTopics, promises, creation>>
  ELSE IF HasPendingCreation(c) THEN
    LET p == promises[c][creatingTopics[c]] IN
    /\ task' = [tf EXCEPT ![t] = IF p.state = "resolved" THEN AfterTopic(tk, p.value)
                                 ELSE [tk EXCEPT !.pc = "awaitTopic"]]
    /\ UNCHANGED <<creatingTopics, promises, creation>>
  ELSE
    LET i == Len(promises[c]) + 1
        new == [state |-> "pending", value |-> NoTopic, creates |-> 0,
                epoch |-> Epoch(c), owner |-> t] IN
    IF ~ChatIdConfigured \/ (~BotReady /\ ~IsGroup(c)) THEN
      \* the IIFE finishes before creatingTopics.set runs: the early return, or
      \* a TypeError on the null bot caught before the first await
      /\ promises' = [promises EXCEPT ![c] = Append(@, [new EXCEPT !.state = "resolved"])]
      /\ creatingTopics' = [creatingTopics EXCEPT ![c] = i]
      /\ task' = [tf EXCEPT ![t] = AfterTopic(tk, NoTopic)]
      /\ UNCHANGED creation
    ELSE
      /\ promises' = [promises EXCEPT ![c] = Append(@, new)]
      /\ creatingTopics' = [creatingTopics EXCEPT ![c] = i]
      /\ creation' = [creation EXCEPT ![c] = [pc |-> IF IsGroup(c) THEN "meta" ELSE "create",
                                              topic |-> NoTopic]]
      /\ task' = [tf EXCEPT ![t] = [tk EXCEPT !.pc = "awaitTopic"]]

\* The creation IIFE of chat c returns v: finally-block, promise resolution, waiters resume
ResolveCreation(tf, c, v) ==
  /\ creatingTopics' = [creatingTopics EXCEPT ![c] = 0]
  /\ promises' = [promises EXCEPT ![c][creatingTopics[c]].state = "resolved",
                                  ![c][creatingTopics[c]].value = v]
  /\ creation' = [creation EXCEPT ![c] = [pc |-> "idle", topic |-> NoTopic]]
  /\ task' = Wake(tf, c, v)

\* ------------------------------------------------------------------ strings
\* A string is a sequence of characters; these are the characters of the
\* operator's texts: a lower-case letter, its upper-case form, and white space
Alphabet == {"a", "A", " "}

Strings(n) == UNION {[1..k -> Alphabet] : k \in 0..n}

IsSpace(ch) == ch = " "

\* String.prototype.toLowerCase
toLowerCase(s) == [i \in 1..Len(s) |-> IF s[i] = "A" THEN "a" ELSE s[i]]

RECURSIVE trimStart(_)
trimStart(s) == IF s # <<>> /\ IsSpace(Head(s)) THEN trimStart(Tail(s)) ELSE s

RECURSIVE trimEnd(_)
trimEnd(s) ==
  IF s # <<>> /\ IsSpace(s[Len(s)]) THEN trimEnd(SubSeq(s, 1, Len(s) - 1)) ELSE s

\* String.prototype.trim
trim(s) == trimEnd(trimStart(s))

\* String.prototype.startsWith
startsWith(s, w) == Len(w) <= Len(s) /\ SubSeq(s, 1, Len(w)) = w

\* the first white-space-free run of a string that starts with none
RECURSIVE FirstWord(_)
FirstWord(s) ==
  IF s = <<>> \/ IsSpace(Head(s)) THEN <<>> ELSE <<Head(s)>> \o FirstWord(Tail(s))

\* [command, ...args] = text.trim().split(/\s+/): the args of a command text
\* whose part after the command name and its separator is s
RECURSIVE split(_)
split(s) ==
  LET r == trimStart(s) IN
  IF r = <<>> THEN <<>>
  ELSE <<FirstWord(r)>> \o split(SubSeq(r, Len(FirstWord(r)) + 1, Len(r)))

\* Array.prototype.join(" ")
RECURSIVE join(_)
join(args) ==
  IF args = <<>> THEN <<>>
  ELSE IF Len(args) = 1 THEN args[1]
  ELSE args[1] \o <<" ">> \o join(Tail(args))

\* ----------------------------------------------------------- authentication
\* Sink user ids (msg.from.id), and Number.prototype.toString on them
Users == {101, 202}

toString(u) == IF u = 101 THEN "101" ELSE "202"

\* this.password (the default of TELEGRAM_PASSWORD), and some other password
password == "admin123"
Passwords == {password, "letmein"}

\* this.authTimeout
authTimeout == 24 * 60 * 60 * 1000

\* authenticatedUsers.get(userId) of a user without entry
NoEntry == [authenticated |-> FALSE, timestamp |-> 0]

NoCheck == [user |-> 0, result |-> FALSE]

\* the expiry test of isUserAuthenticated on an entry's timestamp at time n
Expired_Early(ts, n) == n - ts >= authTimeout - 1
Expired(ts, n) == n - ts > authTimeout

\* isUserAuthenticated(userId): the value returned
isUserAuthenticated(u) ==
  IF toString(u) \in sudoUsers THEN TRUE
  ELSE IF authenticatedUsers[u] = NoEntry THEN FALSE
  ELSE IF Expired(authenticatedUsers[u].timestamp, now) THEN FALSE
  ELSE authenticatedUsers[u].authenticated

\* isUserAuthenticated(userId): authenticatedUsers after the call (an expired
\* entry is deleted)
AfterAuthCheck(u) ==
  IF /\ toString(u) \notin sudoUsers
     /\ authenticatedUsers[u] # NoEntry
     /\ Expired(authenticatedUsers[u].timestamp, now)
  THEN [authenticatedUsers EXCEPT ![u] = NoEntry]
  ELSE authenticatedUsers

\* the authentication state of a bridge just constructed with sudo set sd
AuthStart(sd) ==
  /\ now = 0
  /\ ticks = 0
  /\ authenticatedUsers = [u \in Users |-> NoEntry]
  /\ sudoUsers = sd
  /\ lastAuth = [u \in Users |-> NoEntry]
  /\ authOut = NoCheck

\* ------------------------------------------------------------------ filters
StatusJid == "status@broadcast"

NoOut == [path |-> "none", text |-> <<>>, sent |-> FALSE, body |-> <<>>, marker |-> "none",
          from |-> 0, presence |-> FALSE, download |-> "none", result |-> "none"]

\* the filter state of a bridge just constructed
FilterStart ==
  /\ filters = {}
  /\ clearing = FALSE
  /\ addedSince = FALSE
  /\ lastBlocked = <<>>
  /\ out = NoOut

\* ------------------------------------------------------------ Spec: actions
\* ------------------------------------------------------------------ routing
\* the content fields of an inbound message that syncMessage looks at
ContentKinds == {"stickerMessage", "ptvMessage", "imageMessage", "videoMessage",
                 "audioMessage", "documentMessage", "locationMessage",
                 "contactMessage", "viewOnceMessage"}

NoMessage == [content |-> {}, ptv |-> FALSE, text |-> <<>>, seen |-> FALSE]

RouteStart ==
  /\ inbound = NoMessage
  /\ ran = <<>>

\* jid.split("@")[0]
PhoneOf(jid) == IF jid = UserJid THEN <<"1", "1", "1">> ELSE <<"2", "2", "2">>

Phones == {PhoneOf(c) : c \in Chats}

\* "no name": an absent key of contactMappings (the empty string is as falsy)
NoName == <<>>

IdleCall == [pc |-> "idle", text |-> <<>>, first |-> FALSE, mark |-> 0, ok |-> TRUE,
             title |-> <<>>, topic |-> NoTopic, pic |-> FALSE]

\* a bridge just constructed: no contact known, no call running
E2EStart ==
  /\ contactMappings = [ph \in Phones |-> NoName]
  /\ e2e = IdleCall
  /\ sinkLog = <<>>

\* "no picture": an absent key of profilePicCache, a null profilePicUrl
NoPic == "null"

\* a conversation the document does not hold
NoValue == [shape |-> "absent", telegramTopicId |-> NoTopic, profilePicUrl |-> NoPic]

\* saveMappingsToDb in full: the document it writes to global.db.bridge for
\* the tables cm (chatMappings), pics (profilePicCache), um (userMappings),
\* ct (contactMappings) and fl (filters)
SavedDocument(cm, pics, um, ct, fl) ==
  [chatMappings |-> [c \in Chats |->
                       IF cm[c] # NoTopic
                       THEN [shape |-> "object", telegramTopicId |-> cm[c],
                             profilePicUrl |-> pics[c]]
                       ELSE NoValue],
   userMappings |-> um,
   contactMappings |-> ct,
   filters |-> {f \in fl : f # <<>>}]

\* the bridge document of an empty Mapping Store
EmptyDocument ==
  SavedDocument([c \in Chats |-> NoTopic], [c \in Chats |-> NoPic],
                [c \in {UserJid} |-> 0], [ph \in Phones |-> NoName], {})

NoOffer == [phone |-> <<>>, name |-> <<>>]

\* a bridge just constructed and a database that holds an empty bridge document
StoreStart ==
  /\ profilePicCache = [c \in Chats |-> NoPic]
  /\ disk = EmptyDocument
  /\ offered = NoOffer
  /\ storeOp = "none"

\* the callbacks the bridge hands to setTimeout: the "paused" presence of
\* sendTypingPresence (this.presenceTimeout), the "available" presence of
\* handleTelegramMessage, the queueing of handleTelegramText, the read-receipt
\* flush of queueMessageForReadReceipt, the call de-duplication of
\* handleCallNotification
TimerKinds == {"pause", "available", "queue", "readReceipt", "callDedup"}

\* a bridge just constructed: no timer pending, nothing queued, not shut down
ShutdownStart ==
  /\ timers = [k \in TimerKinds |-> 0]
  /\ messageQueue = 0
  /\ shut = "running"
  /\ afterShutdown = [fired |-> {}, sourceCalls |-> 0]

NoTimer == [jid |-> "none", due |-> 0]

NoPresenceCall == [jid |-> "none", type |-> "none", at |-> 0, sent |-> FALSE]

\* a bridge just constructed: no presence sent, no timer, no handler running
PresenceStart ==
  /\ lastPresenceUpdate = [c \in Chats |-> 0]
  /\ presenceTimeout = NoTimer
  /\ pauseTimers = {}
  /\ availableTimers = {}
  /\ handling = [c \in Chats |-> "idle"]
  /\ presenceLog = <<>>
  /\ presenceCall = NoPresenceCall
  /\ lastTyping = NoTimer
  /\ typed = 0

\* the start of the variables in lateVars
\* a bridge just constructed: messageQueue is an empty Map, no timer is pending
ReceiptStart ==
  /\ receiptQueue = <<>>
  /\ receiptTimers = 0
  /\ reading = 0
  /\ readLog = <<>>
  /\ enqueued = 0
  /\ readFailed = FALSE

\* a bridge just constructed: no call key is held, no call topic is mapped
CallStart ==
  /\ activeCallNotifications = {}
  /\ callTimers = {}
  /\ callLog = <<>>
  /\ callTopic = NoTopic

NoStatus == [pc |-> "idle", id |-> 0, participant |-> "none", type |-> "none", heals |-> 0,
             clean |-> TRUE]

NoReply == [pc |-> "idle", n |-> 0, target |-> 0, found |-> FALSE, result |-> "none",
            signs |-> {}, forwarded |-> FALSE]

\* a bridge just constructed: nothing mirrored, no status topic mapped
StatusStart ==
  /\ statusMessageMapping = {}
  /\ statusSink = <<>>
  /\ statusTopic = NoTopic
  /\ status = NoStatus
  /\ statusSeen = 0
  /\ reply = NoReply
  /\ replies = 0
  /\ sourceSends = <<>>

MaxMade == 2

\* the topics of the two conversations and those made for them later
TopicIds == 1..(2 + MaxMade)

NoPass == [pc |-> "idle", n |-> 0, i |-> 1, toRecreate |-> <<>>,
           before |-> [c \in Chats |-> NoTopic], existed |-> {}, clean |-> TRUE]

\* a bridge just constructed: the cache is an empty Map, no pass is running
RecreateStart ==
  /\ topicVerificationCache = [t \in TopicIds |-> "none"]
  /\ pass = NoPass
  /\ made = 0

NoMedia == [pc |-> "idle", n |-> 0, hint |-> "none", named |-> FALSE, topic |-> NoTopic,
            file |-> [name |-> 0, ext |-> "none"], heals |-> 0, failed |-> "none"]

\* a bridge just constructed: the temp directory is empty
MediaStart ==
  /\ tempDir = {}
  /\ media = NoMedia
  /\ mediaSeen = 0
  /\ downloads = 0
  /\ mediaSink = <<>>

\* no message was handed to syncMessage yet; own messages are not mirrored
\* unless a specification says otherwise
NoSync == [pc |-> "idle", n |-> 0, own |-> FALSE, kind |-> "text", topic |-> NoTopic,
           mapped |-> FALSE, heals |-> 0, forwarded |-> FALSE]

SyncLogsStart ==
  /\ sync = NoSync
  /\ syncSeen = 0
  /\ syncSink = <<>>
  /\ syncMade = <<>>
  /\ syncProfiles = <<>>
  /\ syncQueued = <<>>

SyncStart == sendOutgoingMessages = FALSE /\ SyncLogsStart

\* no /restore was given yet
NoRestore == [pc |-> "idle", n |-> 0, backup |-> EmptyDocument, pre |-> EmptyDocument,
              saves |-> 0]

RestoreStart == restoring = NoRestore /\ periodic = 0

LateStart ==
  /\ PresenceStart /\ ReceiptStart /\ CallStart /\ StatusStart /\ RecreateStart /\ MediaStart
  /\ SyncStart /\ RestoreStart

\* the start of the variables in auxVars
AuxStart == RouteStart /\ E2EStart /\ StoreStart /\ ShutdownStart /\ LateStart

\* the topic state of a bridge just constructed
LifecycleStart ==
  /\ chatMappings = [c \in Chats |-> NoTopic]
  /\ userMappings = [c \in {UserJid} |-> 0]
  /\ db = saveMappingsToDb(chatMappings, userMappings, {})
  /\ creatingTopics = [c \in Chats |-> 0]
  /\ promises = [c \in Chats |-> <<>>]
  /\ creation = [c \in Chats |-> [pc |-> "idle", topic |-> NoTopic]]
  /\ task = [t \in Tasks |-> IdleTask]
  /\ sinkTopics = {}
  /\ sinkCreated = <<>>
  /\ createFails = [c \in Chats |-> 0]
  /\ sinkDeletes = [c \in Chats |-> 0]

Init ==
  /\ cfg \in {"ok", "noChatId", "noToken"}
  /\ welcomeMessage \in BOOLEAN
  /\ LifecycleStart
  /\ FilterStart
  /\ AuthStart({})
  /\ AuxStart

\* Task table with the overlap of task t (about to start on chat c) recorded
Marked(t, c) ==
  [u \in Tasks |-> IF u # t /\ Active(task[u]) /\ task[u].chat = c
                   THEN [task[u] EXCEPT !.solo = FALSE] ELSE task[u]]

\* Task ids are labels: events take the task slots in order
NextSlot(t) == task[t].pc = "idle" /\ (IF t = 1 THEN TRUE ELSE task[t - 1].pc # "idle")

NewTask(t, k, c) ==
  [task[t] EXCEPT !.kind = k, !.chat = c, !.cont = "first", !.hit0 = IsMapped(c),
                  !.solo = \A u \in Tasks : u = t \/ ~Active(task[u]) \/ task[u].chat # c]

\* A collaborator calls getOrCreateTopic(c) directly
CallGetOrCreateTopic(t, c) ==
  /\ NextSlot(t)
  /\ getOrCreateTopic(Marked(t, c), t, c, NewTask(t, "api", c))
  /\ UNCHANGED <<filterVars, authVars, auxVars, cfg, welcomeMessage, chatMappings, userMappings, db,
                 sinkTopics, sinkCreated, createFails, sinkDeletes>>

\* syncMessage for an inbound message of chat c with content kind k: the bot
\* check, createUserMapping and the call of getOrCreateTopic(sender).  (The save
\* inside createUserMapping suspends the task, but it touches only
\* userMappings, which no other step of this specification reads: arrival and
\* the call are one step.)
syncMessage(t, k, c) ==
  /\ NextSlot(t)
  /\ k \in {"text", "media"}
  /\ IF ~BotReady THEN
       /\ task' = [Marked(t, c) EXCEPT ![t] = [NewTask(t, k, c) EXCEPT !.pc = "done"]]
       /\ UNCHANGED <<userMappings, db, creatingTopics, promises, creation>>
     ELSE
       /\ userMappings' = [userMappings EXCEPT ![UserJid] = @ + 1]
       /\ db' = saveMappingsToDb(chatMappings, userMappings', filters)
       /\ getOrCreateTopic(Marked(t, c), t, c, NewTask(t, k, c))
  /\ UNCHANGED <<filterVars, authVars, auxVars, cfg, welcomeMessage, chatMappings,
                 sinkTopics, sinkCreated, createFails, sinkDeletes>>

\* groupMetadata answered (subject or the "Group Chat" fallback); createForumTopic is called
CreationMeta(c) ==
  /\ creation[c].pc = "meta"
  /\ IF BotReady THEN
       /\ creation' = [creation EXCEPT ![c].pc = "create"]
       /\ UNCHANGED <<creatingTopics, promises, task>>
     ELSE ResolveCreation(task, c, NoTopic)
  /\ UNCHANGED <<filterVars, authVars, auxVars, cfg, welcomeMessage, chatMappings, userMappings, db,
                 sinkTopics, sinkCreated, createFails, sinkDeletes>>

\* The value a failed creation returns
FailedCreationResult_Stale(c) == 1
FailedCreationResult(c) == NoTopic

\* createForumTopic answered
CreationCreate(c) ==
  /\ creation[c].pc = "create"
  /\ LET i == creatingTopics[c]
         owner == promises[c][i].owner
         counted == [task EXCEPT ![owner].creates = @ + 1] IN
     \/ \* the Sink created the topic
        /\ LET id == Len(sinkCreated) + 1 IN
           /\ sinkCreated' = Append(sinkCreated, c)
           /\ sinkTopics' = sinkTopics \cup {id}
           /\ creation' = [creation EXCEPT ![c].pc = "pic", ![c].topic = id]
        /\ promises' = [promises EXCEPT ![c][i].creates = @ + 1]
        /\ task' = counted
        /\ UNCHANGED <<creatingTopics, createFails>>
     \/ \* the call failed: catch, return null
        /\ createFails' = [createFails EXCEPT ![c] = @ + 1]
        /\ creatingTopics' = [creatingTopics EXCEPT ![c] = 0]
        /\ promises' = [promises EXCEPT ![c][i].creates = @ + 1,
                                        ![c][i].state = "resolved",
                                        ![c][i].value = FailedCreationResult(c)]
        /\ creation' = [creation EXCEPT ![c] = [pc |-> "idle", topic |-> NoTopic]]
        /\ task' = Wake(counted, c, FailedCreationResult(c))
        /\ UNCHANGED <<sinkCreated, sinkTopics>>
  /\ UNCHANGED <<filterVars, authVars, auxVars, cfg, welcomeMessage, chatMappings, userMappings, db, sinkDeletes>>

MappedTopic_First(c) == 1

\* this.chatMappings.set(chatJid, topic.message_thread_id): the id the Sink
\* gave to the topic it created for the chat
MappedTopic(c) == creation[c].topic

\* profilePictureUrl answered; the mapping is stored and saved
CreationPic(c) ==
  /\ creation[c].pc = "pic"
  /\ creation' = [creation EXCEPT ![c].pc = "save"]
  /\ chatMappings' = [chatMappings EXCEPT ![c] = MappedTopic(c)]
  /\ db' = saveMappingsToDb(chatMappings', userMappings, filters)
  /\ UNCHANGED <<filterVars, authVars, auxVars, cfg, welcomeMessage, userMappings, creatingTopics, promises,
                 task, sinkTopics, sinkCreated, createFails, sinkDeletes>>

\* the save returned: sendWelcomeMessage starts, or the creation returns the topic
CreationSaved(c) ==
  /\ creation[c].pc = "save"
  /\ IF welcomeMessage THEN
       /\ creation' = [creation EXCEPT ![c].pc = "welcome"]
       /\ UNCHANGED <<creatingTopics, promises, task>>
     ELSE ResolveCreation(task, c, creation[c].topic)
  /\ UNCHANGED <<filterVars, authVars, auxVars, cfg, welcomeMessage, chatMappings, userMappings, db,
                 sinkTopics, sinkCreated, createFails, sinkDeletes>>

\* sendWelcomeMessage returned (welcome sent and pinned, or a failure logged);
\* the creation returns the topic
CreationWelcome(c) ==
  /\ creation[c].pc = "welcome"
  /\ ResolveCreation(task, c, creation[c].topic)
  /\ UNCHANGED <<filterVars, authVars, auxVars, cfg, welcomeMessage, chatMappings, userMappings, db,
                 sinkTopics, sinkCreated, createFails, sinkDeletes>>

\* The heal block shared by the forwarders: drop the mapping of chat c and the
\* cached picture, save, and wait for the save (task t then recreates the topic)
HealDelete(t, c, tk) ==
  /\ chatMappings' = [chatMappings EXCEPT ![c] = NoTopic]
  /\ db' = saveMappingsToDb(chatMappings', userMappings, filters)
  /\ task' = [task EXCEPT ![t] = [tk EXCEPT !.pc = "healSave", !.jc = c, !.dels = @ + 1]]

\* sendSimpleMessage: the chat whose mapping is dropped after "thread not found"
\* on topic tp for a message of chat c (the set is empty when none is found)
TextHealTarget_None(tp, c) == {}
TextHealTarget(tp, c) == JidsOfTopic(tp)

\* handleWhatsAppMedia / Location / Contact: the same, for sendMedia(finalTopicId)
MediaHealTarget(tp, c) == {c}

\* where a forwarder stands after a failure that its catch block logged: it
\* returns normally
AfterLoggedFailure_Thrown == "rejected"
AfterLoggedFailure == "done"

\* The Sink answered the forwarder's send (sendSimpleMessage's first sendMessage,
\* or sendMedia / sendLocation / sendContact on task[t].topic)
SendDone(t) ==
  /\ task[t].pc = "send"
  /\ LET tk == [task[t] EXCEPT !.sends = @ + 1]
         tp == task[t].topic
         c == task[t].chat IN
     \/ \* delivered
        /\ tp \in sinkTopics
        /\ task' = [task EXCEPT ![t] = [tk EXCEPT !.pc = "done", !.delivered = tp]]
        /\ UNCHANGED <<chatMappings, db>>
     \/ \* any failure other than "message thread not found": logged, given up
        /\ task' = [task EXCEPT ![t] = [tk EXCEPT !.pc = AfterLoggedFailure, !.errs = @ + 1]]
        /\ UNCHANGED <<chatMappings, db>>
     \/ \* "message thread not found"
        /\ tp \notin sinkTopics
        /\ LET tn == [tk EXCEPT !.tnfs = @ + 1]
               target == IF tk.kind = "text" THEN TextHealTarget(tp, c)
                         ELSE MediaHealTarget(tp, c) IN
           IF target # {}
           THEN HealDelete(t, CHOOSE j \in target : TRUE, tn)
           ELSE /\ task' = [task EXCEPT ![t] = [tn EXCEPT !.pc = "done"]]
                /\ UNCHANGED <<chatMappings, db>>
  /\ UNCHANGED <<filterVars, authVars, auxVars, cfg, welcomeMessage, userMappings, creatingTopics, promises, creation,
                 sinkTopics, sinkCreated, createFails, sinkDeletes>>

\* The save of the heal block returned: the forwarder calls getOrCreateTopic again
HealSaved(t) ==
  /\ task[t].pc = "healSave"
  /\ getOrCreateTopic(task, t, task[t].jc, [task[t] EXCEPT !.cont = "heal", !.heals = @ + 1])
  /\ UNCHANGED <<filterVars, authVars, auxVars, cfg, welcomeMessage, chatMappings, userMappings, db,
                 sinkTopics, sinkCreated, createFails, sinkDeletes>>

\* sendSimpleMessage: the Sink answered the retried sendMessage; whatever the
\* answer, the function returns
RetryDone(t) ==
  /\ task[t].pc = "retry"
  /\ LET tk == [task[t] EXCEPT !.sends = @ + 1, !.pc = "done"] IN
     \/ /\ task[t].topic \in sinkTopics
        /\ task' = [task EXCEPT ![t] = [tk EXCEPT !.delivered = task[t].topic]]
     \/ /\ task[t].topic \in sinkTopics
        /\ task' = [task EXCEPT ![t] = [tk EXCEPT !.pc = AfterLoggedFailure, !.errs = @ + 1]]
     \/ /\ task[t].topic \notin sinkTopics
        /\ task' = [task EXCEPT ![t] = [tk EXCEPT !.pc = AfterLoggedFailure, !.tnfs = @ + 1]]
  /\ UNCHANGED <<filterVars, authVars, auxVars, cfg, welcomeMessage, chatMappings, userMappings, db,
                 creatingTopics, promises, creation, sinkTopics, sinkCreated, createFails,
                 sinkDeletes>>

\* The Sink's operator deletes a topic out of band
SinkDelete(tp) ==
  /\ tp \in sinkTopics
  /\ sinkDeletes[UserJid] + sinkDeletes[GroupJid] < MaxDeletes
  /\ sinkTopics' = sinkTopics \ {tp}
  /\ sinkDeletes' = [sinkDeletes EXCEPT ![sinkCreated[tp]] = @ + 1]
  /\ UNCHANGED <<filterVars, authVars, auxVars, cfg, welcomeMessage, chatMappings, userMappings, db,
                 creatingTopics, promises, creation, task, sinkCreated, createFails>>

Next ==
  \/ \E t \in Tasks, c \in Chats : CallGetOrCreateTopic(t, c)
  \/ \E t \in Tasks, k \in {"text", "media"}, c \in Chats : syncMessage(t, k, c)
  \/ \E c \in Chats : CreationMeta(c)
  \/ \E c \in Chats : CreationCreate(c)
  \/ \E c \in Chats : CreationPic(c)
  \/ \E c \in Chats : CreationSaved(c)
  \/ \E c \in Chats : CreationWelcome(c)
  \/ \E t \in Tasks : SendDone(t)
  \/ \E t \in Tasks : HealSaved(t)
  \/ \E t \in Tasks : RetryDone(t)
  \/ \E tp \in sinkTopics : SinkDelete(tp)

Spec == Init /\ [][Next]_vars
\* ------------------------------------------------- Spec: claims C1 .. C7
\* number of topics the Sink created for chat c
Created(c) == Cardinality({i \in 1..Len(sinkCreated) : sinkCreated[i] = c})

\* task t calls getOrCreateTopic in this step
CallsTopic(t) ==
  \/ task[t].pc = "idle" /\ task'[t].pc # "idle" /\ (task'[t].kind = "api" \/ cfg = "ok")
  \/ task[t].pc = "healSave" /\ task'[t].pc # "healSave"

\* C1: getOrCreateTopic(C) calls made while C is unmapped and before the first of
\* them resolves share one creation future: no two futures of C are started with
\* the same number of resolved futures behind them, a future issues at most one
\* create-topic call (exactly one, once resolved, with a configured bot), and the
\* callers of one such round all receive the same topicId.
C1_OneCreatePerRound ==
  \A c \in Chats :
    /\ \A i, j \in 1..Len(promises[c]) :
         i # j => promises[c][i].epoch # promises[c][j].epoch
    /\ \A i \in 1..Len(promises[c]) :
         /\ promises[c][i].creates <= 1
         /\ (cfg = "ok" /\ promises[c][i].state = "resolved") => promises[c][i].creates = 1
    /\ \A t, u \in Tasks :
         (/\ task[t].jc = c /\ task[u].jc = c
          /\ task[t].epoch >= 0 /\ task[t].epoch = task[u].epoch
          /\ task[t].retd /\ task[u].retd) => task[t].ret = task[u].ret

\* C1 witness: two callers of one round both got the topic created in it
C1_Witness ==
  \E t, u \in Tasks :
    /\ t # u /\ task[t].jc = task[u].jc
    /\ task[t].epoch >= 0 /\ task[t].epoch = task[u].epoch
    /\ task[t].retd /\ task[u].retd
    /\ task[t].ret # NoTopic /\ task[t].ret = task[u].ret

\* C2: a getOrCreateTopic(C) call made while chatMappings holds C returns the
\* mapped topicId at once and starts nothing: no creation future, no creation
\* step, no create-topic call.
C2_MappedIsReturned ==
  [][\A t \in Tasks :
       (CallsTopic(t) /\ chatMappings[task'[t].jc] # NoTopic) =>
         /\ task'[t].retd
         /\ task'[t].ret = chatMappings[task'[t].jc]
         /\ UNCHANGED <<creatingTopics, promises, creation, sinkCreated, sinkTopics>>]_vars

\* C2 witness: a forwarder's getOrCreateTopic call found C mapped and got the
\* mapped topic without a creation being started
C2_Witness ==
  \E t \in Tasks :
    /\ task[t].hit0 /\ task[t].pc = "send" /\ task[t].heals = 0 /\ task[t].epoch = -1
    /\ task[t].ret # NoTopic /\ task[t].ret = chatMappings[task[t].chat]
    /\ creatingTopics[task[t].chat] = 0

\* C3 (as claimed): the topics created for C never outnumber 1 + the topics of C
\* that the Sink deleted.
C3_CreatesBoundedByDeletes ==
  \A c \in Chats : Created(c) <= 1 + sinkDeletes[c]

\* precondition of C4 on a task record: a forwarder that found C mapped, ran
\* alone on C, got "thread not found" once (on its first attempt) and met no
\* other failure
C4_Case(tk) ==
  /\ tk.pc = "done" /\ tk.kind \in {"text", "media"}
  /\ tk.hit0 /\ tk.solo /\ tk.tnfs = 1 /\ tk.errs = 0 /\ tk.ret # NoTopic

\* C4: in that case the forwarder deleted the mapping once, caused one
\* create-topic call, sent twice (the failed attempt and one retry), the retry
\* went to the new topic, and when it returns C is mapped to that topic.
C4_HealRoundTrip ==
  [][\A t \in Tasks :
       (task[t].pc # "done" /\ C4_Case(task'[t])) =>
         /\ task'[t].dels = 1 /\ task'[t].heals = 1 /\ task'[t].creates = 1
         /\ task'[t].sends = 2
         /\ task'[t].delivered = task'[t].ret
         /\ task'[t].delivered \in sinkTopics'
         /\ chatMappings'[task'[t].chat] = task'[t].delivered
         /\ db'.chatMappings[task'[t].chat] = task'[t].delivered]_vars

\* C4 witness: a forwarder went through it and delivered to the recreated topic
C4_Witness ==
  \E t \in Tasks :
    /\ C4_Case(task[t]) /\ task[t].delivered # NoTopic /\ task[t].sends = 2
    /\ chatMappings[task[t].chat] = task[t].delivered

\* C5 (as claimed): no forwarder call makes more than one extra send attempt or
\* more than one topic recreation.
C5_BoundedRetry ==
  \A t \in Tasks : task[t].sends <= 2 /\ task[t].heals <= 1

\* C6 (as claimed): creatingTopics holds at most one in-flight future per chat,
\* and only in-flight ones: no entry outlives the resolution of its future.
C6_NoResolvedEntry ==
  \A c \in Chats :
    /\ Cardinality({i \in 1..Len(promises[c]) : promises[c][i].state = "pending"}) <= 1
    /\ creatingTopics[c] # 0 => promises[c][creatingTopics[c]].state = "pending"

\* the creation of chat c fails in this step (createForumTopic rejected)
CreateFails(c) == createFails'[c] = createFails[c] + 1

\* C7: when the create-topic call fails, the owner and every waiter of the
\* future receive null, and neither chatMappings nor the persisted document holds
\* an entry for C.
C7_FailedCreateLeavesNothing ==
  [][\A c \in Chats :
       CreateFails(c) =>
         /\ \A t \in Tasks :
              (task[t].pc = "awaitTopic" /\ task[t].jc = c) =>
                (task'[t].retd /\ task'[t].ret = NoTopic /\ task'[t].pc = "done")
         /\ chatMappings'[c] = NoTopic
         /\ db'.chatMappings[c] = NoTopic]_vars

\* C7 witness: two callers of one round received null from a configured bridge
C7_Witness ==
  \E t, u \in Tasks :
    /\ t # u /\ cfg = "ok" /\ task[t].jc \in Chats /\ task[t].jc = task[u].jc
    /\ createFails[task[t].jc] = 1
    /\ task[t].epoch >= 0 /\ task[t].epoch = task[u].epoch
    /\ task[t].retd /\ task[u].retd /\ task[t].ret = NoTopic /\ task[u].ret = NoTopic

MaxTicks == 3        \* clock advances per behaviour

\* the clock advances by a millisecond, or by a millisecond less than authTimeout
TickSteps == {1, authTimeout - 1}

InitAuth ==
  /\ cfg = "ok"
  /\ welcomeMessage = TRUE
  /\ LifecycleStart
  /\ FilterStart
  /\ AuxStart
  /\ \E sd \in {{}, {"101"}} : AuthStart(sd)

\* authenticateUser(userId, password)
authenticateUser(u, pw) ==
  /\ IF pw = password
     THEN /\ authenticatedUsers' =
               [authenticatedUsers EXCEPT ![u] = [authenticated |-> TRUE, timestamp |-> now]]
          /\ lastAuth' = [lastAuth EXCEPT ![u] = [authenticated |-> TRUE, timestamp |-> now]]
     ELSE UNCHANGED <<authenticatedUsers, lastAuth>>
  /\ authOut' = NoCheck
  /\ UNCHANGED <<auxVars, lifecycleVars, filterVars, now, ticks, sudoUsers>>

\* a handler calls isUserAuthenticated(userId)
CheckAuth(u) ==
  /\ authOut' = [user |-> u, result |-> isUserAuthenticated(u)]
  /\ authenticatedUsers' = AfterAuthCheck(u)
  /\ UNCHANGED <<auxVars, lifecycleVars, filterVars, now, ticks, sudoUsers, lastAuth>>

\* time passes
Tick(d) ==
  /\ ticks < MaxTicks
  /\ now' = now + d
  /\ ticks' = ticks + 1
  /\ authOut' = NoCheck
  /\ UNCHANGED <<auxVars, lifecycleVars, filterVars, authenticatedUsers, sudoUsers, lastAuth>>

NextAuth ==
  \/ \E u \in Users, pw \in Passwords : authenticateUser(u, pw)
  \/ \E u \in Users : CheckAuth(u)
  \/ \E d \in TickSteps : Tick(d)

SpecAuth == InitAuth /\ [][NextAuth]_vars

\* ------------------------------------------------- SpecAuth: claim C10
\* C10: an isUserAuthenticated call for a privileged operator returns true
\* whatever the time and the operator's entry; for any other operator whose
\* latest successful authentication was at time T, the call returns true at
\* T + authTimeout - 1 and false at T + authTimeout + 1.
C10_AuthExpiry ==
  authOut # NoCheck =>
    LET u == authOut.user
        T == lastAuth[u].timestamp IN
    /\ toString(u) \in sudoUsers => authOut.result
    /\ (toString(u) \notin sudoUsers /\ lastAuth[u] # NoEntry) =>
         /\ now = T + authTimeout - 1 => authOut.result
         /\ now = T + authTimeout + 1 => ~authOut.result

\* C10 witness: an operator outside the privileged set, authenticated at T, is
\* rejected by a call at T + authTimeout + 1
C10_Witness ==
  /\ authOut # NoCheck
  /\ toString(authOut.user) \notin sudoUsers
  /\ lastAuth[authOut.user] # NoEntry
  /\ now = lastAuth[authOut.user].timestamp + authTimeout + 1
  /\ ~authOut.result

\* -------------------------------------------------- SpecAuth: claim C11
\* C11 (as claimed): an isUserAuthenticated call for an operator outside the
\* privileged set returns true only while now - timestamp < authTimeout: at
\* now - timestamp = authTimeout and at every later time it returns false.
C11_StrictExpiry ==
  (/\ authOut # NoCheck
   /\ toString(authOut.user) \notin sudoUsers
   /\ lastAuth[authOut.user] # NoEntry
   /\ now - lastAuth[authOut.user].timestamp >= authTimeout) => ~authOut.result

\* ----------------------------------------------------- SpecFilter: actions
MaxLen == 2          \* characters in an operator's text / a command's argument part

\* msg.text of a text message (never empty)
Texts == Strings(MaxLen) \ {<<>>}

\* the prefix handleTelegramText puts before a text that carries a spoiler entity
SpoilerMark == <<"<spoiler>", " ">>

\* whatsappClient.sendMessage: returned a key with an id, returned without one, threw
SendResults == {"id", "noid", "throw"}

\* The bridge restarted on a document that maps UserJid to topic 1: what
\* loadMappingsFromDb leaves, with operator 101 privileged
InitFilter ==
  /\ cfg = "ok"
  /\ welcomeMessage = TRUE
  /\ chatMappings = [c \in Chats |-> IF c = UserJid THEN 1 ELSE NoTopic]
  /\ userMappings = [c \in {UserJid} |-> 1]
  /\ db = saveMappingsToDb(chatMappings, userMappings, {})
  /\ creatingTopics = [c \in Chats |-> 0]
  /\ promises = [c \in Chats |-> <<>>]
  /\ creation = [c \in Chats |-> [pc |-> "idle", topic |-> NoTopic]]
  /\ task = [t \in Tasks |-> IdleTask]
  /\ sinkTopics = {1}
  /\ sinkCreated = <<UserJid>>
  /\ createFails = [c \in Chats |-> 0]
  /\ sinkDeletes = [c \in Chats |-> 0]
  /\ FilterStart
  /\ AuthStart({"101"})
  /\ AuxStart

Outcome(p, x, snt, b, mk) ==
  [path |-> p, text |-> x, sent |-> snt, body |-> b, marker |-> mk,
   from |-> 0, presence |-> FALSE, download |-> "none", result |-> "none"]

\* the outcome o of a topic message of user u; typing: sendTypingPresence ran
TopicOutcome(u, typing, o) == [o EXCEPT !.from = u, !.presence = typing]

\* the outcome o of a forwarder: dl is what downloadTelegramMedia returned
\* ("none": nothing to download), r what whatsappClient.sendMessage did
\* ("none": it was not called)
Forwarded(dl, r, o) == [o EXCEPT !.download = dl, !.result = r]

\* handleCommand refusing an operator who is not authenticated
CommandDenied == Outcome("command", <<>>, FALSE, <<>>, "denied")

\* handleCommand -> handleAddFilter for the text "/addfilter" ++ " " ++ rest sent
\* by user u.  addFilter changes the set and the document before its first
\* await; what follows the awaits only reports to the operator.
handleAddFilter(u, rest) ==
  /\ authenticatedUsers' = AfterAuthCheck(u)
  /\ IF ~isUserAuthenticated(u) THEN
       /\ out' = CommandDenied
       /\ UNCHANGED <<filters, db, addedSince>>
     ELSE
       LET args == split(rest)
           word == toLowerCase(join(args)) IN
       IF Len(args) = 0 THEN
         /\ out' = Outcome("addfilter", <<>>, FALSE, <<>>, "usage")
         /\ UNCHANGED <<filters, db, addedSince>>
       ELSE
         /\ filters' = filters \cup {word}
         /\ db' = saveMappingsToDb(chatMappings, userMappings, filters')
         /\ addedSince' = (addedSince \/ clearing)
         /\ out' = Outcome("addfilter", word, FALSE, <<>>, "added")
  /\ UNCHANGED <<auxVars, cfg, welcomeMessage, chatMappings, userMappings, creatingTopics, promises,
                 creation, task, sinkTopics, sinkCreated, createFails, sinkDeletes,
                 clearing, lastBlocked, now, ticks, sudoUsers, lastAuth, authOut>>

\* this.filters.clear()
ClearedFilters_Kept(fl) == fl
ClearedFilters(fl) == {}

\* handleCommand -> handleClearFilters -> clearFilters, up to the await of the save
handleClearFilters(u) ==
  /\ ~clearing
  /\ authenticatedUsers' = AfterAuthCheck(u)
  /\ IF ~isUserAuthenticated(u) THEN
       /\ out' = CommandDenied
       /\ UNCHANGED <<filters, db, clearing, addedSince>>
     ELSE
       /\ filters' = ClearedFilters(filters)
       /\ db' = saveMappingsToDb(chatMappings, userMappings, filters')
       /\ clearing' = TRUE
       /\ addedSince' = FALSE
       /\ out' = Outcome("clearfilters", <<>>, FALSE, <<>>, "saving")
  /\ UNCHANGED <<auxVars, cfg, welcomeMessage, chatMappings, userMappings, creatingTopics, promises,
                 creation, task, sinkTopics, sinkCreated, createFails, sinkDeletes,
                 lastBlocked, now, ticks, sudoUsers, lastAuth, authOut>>

\* the save returned (or failed and was logged): clearFilters returns, the
\* operator is told
ClearFiltersReturn ==
  /\ clearing
  /\ clearing' = FALSE
  /\ out' = Outcome("clearfilters", <<>>, FALSE, <<>>, "cleared")
  /\ UNCHANGED <<auxVars, lifecycleVars, authVars, filters, addedSince, lastBlocked>>

\* handleTelegramText(msg, whatsappJid); r is what the Source's send does
handleTelegramText(m, r) ==
  LET originalText == trim(m.text)
      textLower == toLowerCase(originalText) IN
  IF \E word \in filters : startsWith(textLower, word) THEN
    /\ out' = TopicOutcome(m.from, TRUE, Outcome("text", m.text, FALSE, <<>>, "rejected"))
    /\ lastBlocked' = m.text
  ELSE
    /\ out' = TopicOutcome(m.from, TRUE, Forwarded("none", r,
                  Outcome("text", m.text, TRUE,
                          IF m.spoiler THEN SpoilerMark \o originalText ELSE originalText,
                          CASE r = "id" -> "ok"
                            [] r = "noid" -> "none"
                            [] OTHER -> "failed")))
    /\ UNCHANGED lastBlocked

\* what a media forwarder leaves on the operator's message: nothing when the
\* download returned null or the send result has no key.id, the failure
\* reaction when the send threw (the forwarder's own catch)
MediaMarker(dl, r) ==
  CASE dl = "null" -> "none"
    [] r = "id" -> "ok"
    [] r = "noid" -> "none"
    [] OTHER -> "failed"

\* handleTelegramPhoto(msg, whatsappJid); the video, video note, voice, audio,
\* document and sticker forwarders have the same shape
handleTelegramPhoto(m, r) ==
  /\ out' = TopicOutcome(m.from, TRUE,
                Forwarded(m.download, IF m.download = "null" THEN "none" ELSE r,
                          Outcome("photo", m.text, m.download # "null", m.text,
                                  MediaMarker(m.download, r))))
  /\ UNCHANGED lastBlocked

\* what handleTelegramLocation leaves on the operator's message: its catch
\* only logs
LocationMarker(r) == IF r = "id" THEN "ok" ELSE "none"

\* handleTelegramLocation(msg, whatsappJid)
handleTelegramLocation(m, r) ==
  /\ out' = TopicOutcome(m.from, TRUE, Forwarded("none", r,
                Outcome("location", m.text, TRUE, m.text, LocationMarker(r))))
  /\ UNCHANGED lastBlocked

\* handleStatusReply(msg); m.known: statusMessageMapping holds the message replied to
handleStatusReply(m, r) ==
  /\ IF ~m.known
     THEN out' = TopicOutcome(m.from, TRUE,
                              Outcome("statusUnknown", m.text, FALSE, <<>>, "failed"))
     ELSE out' = TopicOutcome(m.from, TRUE,
                              Outcome("status", m.text, TRUE, m.text,
                                      IF r = "id" THEN "sent" ELSE "failed"))
  /\ UNCHANGED lastBlocked

\* The operator messages handled: a text in the topic of a chat, a text reply
\* in the status topic, a text in a topic that is mapped to no chat
Msgs ==
  [from : Users, jid : {c \in Chats : IsMapped(c)}, reply : {FALSE}, known : {FALSE},
   text : Texts, spoiler : BOOLEAN, kind : {"text"}, download : {"none"}]
  \cup [from : {101}, jid : {StatusJid}, reply : {TRUE}, known : BOOLEAN,
        text : Texts, spoiler : {FALSE}, kind : {"text"}, download : {"none"}]
  \cup [from : Users, jid : {"none"}, reply : {FALSE}, known : {FALSE},
        text : {<<"a">>}, spoiler : {FALSE}, kind : {"text"}, download : {"none"}]
  \cup [from : {101}, jid : {c \in Chats : IsMapped(c)}, reply : {FALSE}, known : {FALSE},
        text : {<<>>}, spoiler : {FALSE}, kind : {"photo"}, download : {"buffer", "null"}]
  \cup [from : {101}, jid : {c \in Chats : IsMapped(c)}, reply : {FALSE}, known : {FALSE},
        text : {<<>>}, spoiler : {FALSE}, kind : {"location"}, download : {"none"}]

\* handleTelegramMessage(msg) for a text message; m.jid is what
\* findWhatsAppJidByTopic(msg.message_thread_id) finds
handleTelegramMessage(m, r) ==
  /\ IF m.jid = "none" THEN
       /\ out' = TopicOutcome(m.from, FALSE, Outcome("unmapped", m.text, FALSE, <<>>, "none"))
       /\ UNCHANGED <<lastBlocked, authenticatedUsers>>
     ELSE
       /\ authenticatedUsers' = AfterAuthCheck(m.from)
       /\ IF ~isUserAuthenticated(m.from) THEN
            /\ out' = TopicOutcome(m.from, FALSE,
                                    Outcome("denied", m.text, FALSE, <<>>, "denied"))
            /\ UNCHANGED lastBlocked
          ELSE IF m.jid = StatusJid /\ m.reply THEN handleStatusReply(m, r)
          ELSE IF m.kind = "photo" THEN handleTelegramPhoto(m, r)
          ELSE IF m.kind = "location" THEN handleTelegramLocation(m, r)
          ELSE handleTelegramText(m, r)
  /\ UNCHANGED <<auxVars, lifecycleVars, filters, clearing, addedSince,
                 now, ticks, sudoUsers, lastAuth, authOut>>

NextFilter ==
  \/ \E u \in Users, rest \in Strings(MaxLen) : handleAddFilter(u, rest)
  \/ \E u \in Users : handleClearFilters(u)
  \/ ClearFiltersReturn
  \/ \E m \in Msgs, r \in SendResults : handleTelegramMessage(m, r)

SpecFilter == InitFilter /\ [][NextFilter]_vars

\* --------------------------------------------- SpecFilter: claims C8, C9
\* the body a send carried, without the spoiler prefix
Unmarked(b) ==
  IF startsWith(b, SpoilerMark) THEN SubSeq(b, Len(SpoilerMark) + 1, Len(b)) ELSE b

\* C8 (as claimed): on every outbound text path (a text in a chat's topic, a
\* reply to a mirrored status in the status topic) an authenticated operator's
\* text whose trimmed, lower-cased form starts with a filter word causes no
\* Source send and gets the rejection marker; any other text is sent, with its
\* body unchanged (up to surrounding white space and the spoiler prefix).
C8_FilterLaw ==
  [][out'.path \in {"text", "status"} =>
       IF \E w \in filters : startsWith(toLowerCase(trim(out'.text)), w)
       THEN ~out'.sent /\ out'.marker = "rejected"
       ELSE out'.sent /\ trim(Unmarked(out'.body)) = trim(out'.text)]_vars

\* C9: when clearFilters returns and no addFilter ran after it cleared the set,
\* the filter set is empty in memory and in the persisted document; with an
\* empty filter set every text in a chat's topic is sent to the Source, texts
\* blocked earlier included.
C9_ClearFilters ==
  [][/\ (clearing /\ ~clearing' /\ ~addedSince) =>
          (filters' = {} /\ db'.filters = {})
     /\ (out'.path = "text" /\ filters = {}) => out'.sent]_vars

\* C9 witness: after addFilter and clearFilters, with the set empty in memory
\* and in the document, the text that was blocked last has been sent
C9_Witness ==
  /\ filters = {} /\ db.filters = {} /\ ~clearing /\ ~addedSince
  /\ out.path = "text" /\ out.sent /\ out.text = lastBlocked

\* ----------------------------------------------- SpecFilter: claim C12
\* the outcomes of handleTelegramMessage
TopicPaths == {"text", "photo", "location", "status", "statusUnknown", "unmapped", "denied"}

\* C12 (as claimed): a topic message whose sender is neither authenticated nor
\* privileged gets the denial reply and causes no Source call, neither presence
\* nor send, whether or not its topic is mapped to a chat.
C12_DeniedVisibly ==
  [][(out'.path \in TopicPaths /\ ~isUserAuthenticated(out'.from)) =>
       (out'.marker = "denied" /\ ~out'.sent /\ ~out'.presence)]_vars

\* ----------------------------------------------- SpecFilter: claim C15
\* the outcomes of the forwarders of handleTelegramMessage
ForwardPaths == {"text", "photo", "location"}

\* C15 (as claimed): a message of an authenticated operator in the topic of a
\* mapped chat always ends in a visible marker on that message: the success
\* marker exactly when the Source's send returned a message identifier, the
\* rejection marker when a filter matched, and the failure marker when the
\* download failed, the send threw, or the send result had no identifier.
C15_VisibleOutcome ==
  out.path \in ForwardPaths =>
    /\ (out.marker = "ok") <=> (out.result = "id")
    /\ (out.path = "text" /\ ~out.sent) => out.marker = "rejected"
    /\ (out.download = "null" \/ out.result \in {"noid", "throw"}) => out.marker = "failed"
    /\ out.marker \in {"ok", "rejected", "failed"}

\* ------------------------------------------------------ SpecRoute: actions
\* Inbound messages of a chat that are neither status broadcasts nor written by
\* the bridge's own account: any combination of content fields, videoMessage.ptv
\* set or not, with or without extracted text
InboundMessages ==
  {m \in [content : SUBSET ContentKinds, ptv : BOOLEAN, text : {<<>>, <<"a">>},
          seen : {TRUE}] :
     m.ptv => "videoMessage" \in m.content}

\* syncMessage, the if / else-if chain: the forwarders that run for message m
Dispatch(m) ==
  IF "stickerMessage" \in m.content THEN <<"sticker">>
  ELSE IF "ptvMessage" \in m.content THEN <<"video_note">>
  ELSE IF "videoMessage" \in m.content /\ m.ptv THEN <<"video_note">>
  ELSE IF "imageMessage" \in m.content THEN <<"image">>
  ELSE IF "videoMessage" \in m.content THEN <<"video">>
  ELSE IF "audioMessage" \in m.content THEN <<"audio">>
  ELSE IF "documentMessage" \in m.content THEN <<"document">>
  ELSE IF "locationMessage" \in m.content THEN <<"location">>
  ELSE IF "contactMessage" \in m.content THEN <<"contact">>
  ELSE IF "viewOnceMessage" \in m.content THEN <<"view_once">>
  ELSE IF m.text # <<>> THEN <<"text">>
  ELSE <<>>

InitRoute ==
  /\ cfg = "ok"
  /\ welcomeMessage = TRUE
  /\ LifecycleStart
  /\ FilterStart
  /\ AuthStart({})
  /\ AuxStart

\* syncMessage from the point where getOrCreateTopic returned a topic
RouteInbound(m) ==
  /\ inbound' = m
  /\ ran' = Dispatch(m)
  /\ UNCHANGED <<lifecycleVars, filterVars, authVars, e2eVars, storeVars, shutdownVars,
                 lateVars>>

NextRoute == \E m \in InboundMessages : RouteInbound(m)

SpecRoute == InitRoute /\ [][NextRoute]_vars

\* -------------------------------------------------- SpecRoute: claim C14
\* the forwarders in the claimed order of priority
Priority == <<"sticker", "video_note", "image", "video", "audio", "document",
              "location", "contact", "view_once", "text">>

\* message m carries what forwarder f forwards
Carries(m, f) ==
  CASE f = "sticker" -> "stickerMessage" \in m.content
    [] f = "video_note" -> "ptvMessage" \in m.content \/ m.ptv
    [] f = "image" -> "imageMessage" \in m.content
    [] f = "video" -> "videoMessage" \in m.content
    [] f = "audio" -> "audioMessage" \in m.content
    [] f = "document" -> "documentMessage" \in m.content
    [] f = "location" -> "locationMessage" \in m.content
    [] f = "contact" -> "contactMessage" \in m.content
    [] f = "view_once" -> "viewOnceMessage" \in m.content
    [] OTHER -> m.text # <<>>

\* C14 (as claimed): for every inbound message exactly one forwarder runs, and
\* it is the first in the order of priority whose content the message carries;
\* no message runs two forwarders and none runs no forwarder.
C14_ExactlyOneForwarder ==
  inbound.seen =>
    /\ Len(ran) = 1
    /\ \E i \in 1..Len(Priority) :
         /\ ran[1] = Priority[i]
         /\ Carries(inbound, Priority[i])
         /\ \A j \in 1..(i - 1) : ~Carries(inbound, Priority[j])

\* -------------------------------------------------------- SpecE2E: actions
\* One syncMessage call at a time for a text that participant UserJid wrote in
\* the group GroupJid, followed step by step through getOrCreateTopic,
\* sendWelcomeMessage and sendSimpleMessage.  The Sink deletes no topic here,
\* so a failed send is never "message thread not found".
MaxInbound == 2      \* inbound texts per behaviour

\* groupMeta.subject of the group
Subjects == {<<"g">>, <<"G", "2">>}

\* the names the bridge may have learnt for the participant's phone
KnownNames == {NoName, <<"a", "n", "n">>}

\* the title of a group whose metadata cannot be fetched
GroupChatTitle == <<"Group Chat">>

\* the bridge after initialize() with a working configuration, the welcome
\* feature on or off, the participant's contact name known or not
InitE2E ==
  /\ cfg = "ok"
  /\ welcomeMessage \in BOOLEAN
  /\ LifecycleStart
  /\ FilterStart
  /\ AuthStart({})
  /\ RouteStart /\ StoreStart /\ ShutdownStart /\ LateStart
  /\ contactMappings \in [Phones -> KnownNames]
  /\ e2e = IdleCall
  /\ sinkLog = <<>>

\* this.contactMappings.get(senderPhone) || senderPhone
SenderName_Phone(ph) == ph
SenderName(ph) == IF contactMappings[ph] # NoName THEN contactMappings[ph] ELSE ph

\* syncMessage: the text sent to the topic for a text of participant p in chat c
\* ("<bust>" stands for the bust-in-silhouette sign that opens the prefix)
MessageText(c, p, x) ==
  IF IsGroup(c) /\ p # c
  THEN <<"<bust>", " ">> \o SenderName(PhoneOf(p)) \o <<":", "\n">> \o x
  ELSE x

E2EOthers == <<filterVars, authVars, routeVars, cfg, welcomeMessage, creatingTopics, promises,
               creation, task, sinkTopics, sinkCreated, createFails, sinkDeletes,
               contactMappings, storeVars, shutdownVars, lateVars>>

\* syncMessage(whatsappMsg, x) for remoteJid GroupJid, participant UserJid:
\* createUserMapping, then getOrCreateTopic up to its first await (mapped: the
\* topic is returned and sendSimpleMessage calls the Sink)
E2ESyncMessage(x) ==
  /\ e2e.pc \in {"idle", "done"}
  /\ userMappings[UserJid] < MaxInbound
  /\ userMappings' = [userMappings EXCEPT ![UserJid] = @ + 1]
  /\ db' = saveMappingsToDb(chatMappings, userMappings', filters)
  /\ e2e' = [IdleCall EXCEPT !.text = x, !.mark = Len(sinkLog),
                             !.first = ~IsMapped(GroupJid),
                             !.topic = chatMappings[GroupJid],
                             !.pc = IF IsMapped(GroupJid) THEN "send" ELSE "meta"]
  /\ UNCHANGED <<E2EOthers, chatMappings, sinkLog>>

\* getOrCreateTopic: groupMetadata answered with a subject (r) or threw
\* (r = <<>>); createForumTopic is called with the title
E2EMeta(r) ==
  /\ e2e.pc = "meta"
  /\ e2e' = [e2e EXCEPT !.pc = "create",
                        !.title = IF r = <<>> THEN GroupChatTitle ELSE r,
                        !.ok = @ /\ r # <<>>]
  /\ UNCHANGED <<E2EOthers, chatMappings, userMappings, db, sinkLog>>

\* createForumTopic answered: the topic exists and profilePictureUrl is
\* called, or (failed) getOrCreateTopic returns null and syncMessage returns
E2ECreate(success) ==
  /\ e2e.pc = "create"
  /\ IF success THEN
       LET id == Cardinality({i \in 1..Len(sinkLog) : sinkLog[i].call = "createForumTopic"}) + 1 IN
       /\ sinkLog' = Append(sinkLog, [call |-> "createForumTopic", topic |-> id,
                                      text |-> e2e.title])
       /\ e2e' = [e2e EXCEPT !.pc = "pic", !.topic = id]
     ELSE
       /\ e2e' = [e2e EXCEPT !.pc = "done", !.ok = FALSE]
       /\ UNCHANGED sinkLog
  /\ UNCHANGED <<E2EOthers, chatMappings, userMappings, db>>

\* profilePictureUrl answered with a url (pic) or threw; the mapping is set
\* and saved
E2EPic(pic) ==
  /\ e2e.pc = "pic"
  /\ chatMappings' = [chatMappings EXCEPT ![GroupJid] = e2e.topic]
  /\ db' = saveMappingsToDb(chatMappings', userMappings, filters)
  /\ e2e' = [e2e EXCEPT !.pc = "save", !.pic = pic, !.ok = @ /\ pic]
  /\ UNCHANGED <<E2EOthers, userMappings, sinkLog>>

\* the save returned: sendWelcomeMessage asks for the group's metadata, or
\* (feature off) the topic is returned and sendSimpleMessage calls the Sink
E2ESaved ==
  /\ e2e.pc = "save"
  /\ e2e' = [e2e EXCEPT !.pc = IF welcomeMessage THEN "welcomeMeta" ELSE "send"]
  /\ UNCHANGED <<E2EOthers, chatMappings, userMappings, db, sinkLog>>

\* sendWelcomeMessage: groupMetadata answered or threw (the text falls back);
\* sendPhoto or sendMessage is called
E2EWelcomeMeta(success) ==
  /\ e2e.pc = "welcomeMeta"
  /\ e2e' = [e2e EXCEPT !.pc = "welcomeSend", !.ok = @ /\ success]
  /\ UNCHANGED <<E2EOthers, chatMappings, userMappings, db, sinkLog>>

\* sendPhoto / sendMessage of the welcome answered: pinChatMessage is called
\* (after the save of the cached picture), or the failure is logged,
\* sendWelcomeMessage returns and sendSimpleMessage calls the Sink
E2EWelcomeSent(success) ==
  /\ e2e.pc = "welcomeSend"
  /\ IF success THEN
       /\ sinkLog' = Append(sinkLog, [call |-> IF e2e.pic THEN "sendPhoto" ELSE "sendMessage",
                                      topic |-> e2e.topic, text |-> <<"welcome">>])
       /\ e2e' = [e2e EXCEPT !.pc = "pin"]
     ELSE
       /\ e2e' = [e2e EXCEPT !.pc = "send", !.ok = FALSE]
       /\ UNCHANGED sinkLog
  /\ UNCHANGED <<E2EOthers, chatMappings, userMappings, db>>

\* pinChatMessage answered or threw: sendWelcomeMessage and getOrCreateTopic
\* return, sendSimpleMessage calls the Sink
E2EPinned(success) ==
  /\ e2e.pc = "pin"
  /\ e2e' = [e2e EXCEPT !.pc = "send", !.ok = @ /\ success]
  /\ UNCHANGED <<E2EOthers, chatMappings, userMappings, db, sinkLog>>

\* sendSimpleMessage: sendMessage answered (or failed: logged); syncMessage returns
E2ESendDone(success) ==
  /\ e2e.pc = "send"
  /\ IF success THEN
       sinkLog' = Append(sinkLog, [call |-> "sendMessage", topic |-> e2e.topic,
                                   text |-> MessageText(GroupJid, UserJid, e2e.text)])
     ELSE UNCHANGED sinkLog
  /\ e2e' = [e2e EXCEPT !.pc = "done", !.ok = @ /\ success]
  /\ UNCHANGED <<E2EOthers, chatMappings, userMappings, db>>

NextE2E ==
  \/ \E x \in {<<"h", "i">>} : E2ESyncMessage(x)
  \/ \E r \in Subjects \cup {<<>>} : E2EMeta(r)
  \/ \E success \in BOOLEAN : E2ECreate(success)
  \/ \E pic \in BOOLEAN : E2EPic(pic)
  \/ E2ESaved
  \/ \E success \in BOOLEAN : E2EWelcomeMeta(success)
  \/ \E success \in BOOLEAN : E2EWelcomeSent(success)
  \/ \E success \in BOOLEAN : E2EPinned(success)
  \/ \E success \in BOOLEAN : E2ESendDone(success)

SpecE2E == InitE2E /\ [][NextE2E]_vars

\* --------------------------------------------------- SpecE2E: claim C16
\* what the Sink accepted since the running call began
SinceArrival == SubSeq(sinkLog, e2e.mark + 1, Len(sinkLog))

\* the participant's name as the bridge knows it, else the participant's phone
ResolvedName ==
  IF contactMappings[PhoneOf(UserJid)] # NoName THEN contactMappings[PhoneOf(UserJid)]
  ELSE PhoneOf(UserJid)

MaxName == 3         \* characters in a contact's name

NameAlphabet == {"1", "+", "x"}

\* contact.name / notify / verifiedName (<<>>: the field is missing)
Names == UNION {[1..k -> NameAlphabet] : k \in 0..MaxName}

\* the names of the contacts in the store that syncContacts reads
StoreNames == {<<>>, <<"1", "1", "1">>, <<"+", "x", "x">>, <<"x", "x">>, <<"x", "x", "x">>}

\* the bridge document as the tables are after this step
SaveAfter ==
  SavedDocument(chatMappings', profilePicCache', userMappings', contactMappings', filters')

\* saveMappingsToDb: the document is rewritten; database.save writes it to the
\* database or fails (the failure is logged)
Save ==
  /\ db' = SaveAfter
  /\ disk' \in {disk, db'}

\* the test contacts.update and contacts.upsert make on contact.name
NameAccepted(name, phone) ==
  /\ name # <<>>
  /\ name # phone
  /\ ~startsWith(name, <<"+">>)
  /\ Len(name) > 2

\* the test syncContacts makes on contact.verifiedName
VerifiedNameAccepted(name, phone) ==
  /\ name # <<>>
  /\ name # phone
  /\ Len(name) > 2

\* sendProfilePicture(topicId, jid, true): url is the picture it sends and
\* caches (NoPic: feature off, no picture, or the send failed)
ProfilePicAfter(jid, url) ==
  IF IsMapped(jid) /\ url # NoPic /\ url # profilePicCache[jid]
  THEN [profilePicCache EXCEPT ![jid] = url]
  ELSE profilePicCache

\* the variables of lifecycleVars and filterVars but db
StoreTablesButDb == <<cfg, welcomeMessage, chatMappings, userMappings, creatingTopics, promises,
                      creation, task, sinkTopics, sinkCreated, createFails, sinkDeletes,
                      filters, clearing, addedSince, lastBlocked, out>>

\* the handler of contacts.update for one contact
ContactsUpdate(contact, url) ==
  LET phone == PhoneOf(contact.id)
      oldName == contactMappings[phone]
      updated == NameAccepted(contact.name, phone) /\ oldName # contact.name IN
  /\ storeOp' = "mutation"
  /\ offered' = [phone |-> phone, name |-> contact.name]
  /\ contactMappings' = IF updated THEN [contactMappings EXCEPT ![phone] = contact.name]
                        ELSE contactMappings
  /\ profilePicCache' = ProfilePicAfter(contact.id, url)
  /\ UNCHANGED <<StoreTablesButDb, authVars, routeVars, e2e, sinkLog, shutdownVars, lateVars>>
  /\ IF updated \/ profilePicCache' # profilePicCache THEN Save ELSE UNCHANGED <<db, disk>>

\* the handler of contacts.upsert for one contact
ContactsUpsert(contact) ==
  LET phone == PhoneOf(contact.id)
      added == NameAccepted(contact.name, phone) /\ contactMappings[phone] = NoName IN
  /\ storeOp' = "mutation"
  /\ offered' = [phone |-> phone, name |-> contact.name]
  /\ contactMappings' = IF added THEN [contactMappings EXCEPT ![phone] = contact.name]
                        ELSE contactMappings
  /\ UNCHANGED <<StoreTablesButDb, authVars, routeVars, e2e, sinkLog, profilePicCache,
                 shutdownVars, lateVars>>
  /\ IF added THEN Save ELSE UNCHANGED <<db, disk>>

\* syncContacts: the name it takes from a contact of the store
SyncedName(contact, phone) ==
  IF NameAccepted(contact.name, phone) THEN contact.name
  ELSE IF NameAccepted(contact.notify, phone) THEN contact.notify
  ELSE IF VerifiedNameAccepted(contact.verifiedName, phone) THEN contact.verifiedName
  ELSE <<>>

\* syncContacts() with one contact in the store
syncContacts(contact) ==
  LET phone == PhoneOf(contact.id)
      contactName == SyncedName(contact, phone) IN
  /\ storeOp' = "mutation"
  /\ offered' = [phone |-> phone,
                 name |-> IF contact.name # <<>> THEN contact.name
                          ELSE IF contact.notify # <<>> THEN contact.notify
                          ELSE contact.verifiedName]
  /\ contactMappings' = IF contactName # <<>>
                        THEN [contactMappings EXCEPT ![phone] = contactName]
                        ELSE contactMappings
  /\ UNCHANGED <<StoreTablesButDb, authVars, routeVars, e2e, sinkLog, profilePicCache,
                 shutdownVars, lateVars>>
  /\ Save

\* the bridge after initialize() on an empty database
InitContacts ==
  /\ cfg = "ok"
  /\ welcomeMessage = TRUE
  /\ RouteStart /\ E2EStart /\ StoreStart /\ ShutdownStart /\ LateStart
  /\ FilterStart
  /\ AuthStart({})
  /\ chatMappings = [c \in Chats |-> NoTopic]
  /\ userMappings = [c \in {UserJid} |-> 0]
  /\ db = disk
  /\ creatingTopics = [c \in Chats |-> 0]
  /\ promises = [c \in Chats |-> <<>>]
  /\ creation = [c \in Chats |-> [pc |-> "idle", topic |-> NoTopic]]
  /\ task = [t \in Tasks |-> IdleTask]
  /\ sinkTopics = {}
  /\ sinkCreated = <<>>
  /\ createFails = [c \in Chats |-> 0]
  /\ sinkDeletes = [c \in Chats |-> 0]

Contacts(names) ==
  [id : {UserJid}, name : names, notify : {<<>>}, verifiedName : {<<>>}]

NextContacts ==
  \/ \E contact \in Contacts(Names) : ContactsUpdate(contact, NoPic)
  \/ \E contact \in Contacts(Names) : ContactsUpsert(contact)
  \/ \E contact \in [id : {UserJid}, name : StoreNames, notify : StoreNames,
                       verifiedName : StoreNames] : syncContacts(contact)

SpecContacts == InitContacts /\ [][NextContacts]_vars

\* ----------------------------------------------- SpecContacts: claim C17
\* a placeholder name for a phone: the phone itself, a name that starts with
\* "+", a name of fewer than 3 characters
Placeholder(name, phone) ==
  name = phone \/ startsWith(name, <<"+">>) \/ Len(name) < 3

\* C17 (as claimed): on every path that writes the contact directory, a
\* placeholder name never overwrites a name that is no placeholder, and a name
\* that is no placeholder always replaces a placeholder or an absent entry.
C17_ContactMerge ==
  [][\A ph \in Phones :
       LET old == contactMappings[ph]
           new == contactMappings'[ph] IN
       /\ (old # NoName /\ ~Placeholder(old, ph) /\ new # old) => ~Placeholder(new, ph)
       /\ (/\ offered'.phone = ph
           /\ ~Placeholder(offered'.name, ph)
           /\ (old = NoName \/ Placeholder(old, ph))) => new = offered'.name]_vars

\* ------------------------------------------------------ SpecStore: actions
\* The Mapping Store, the bridge document (db) and the database (disk): the
\* operations that change the tables, each with its save, and the loads.
\* Each operation is taken from its mutation to its return in one step.

\* the topic ids the Sink hands out here
StoreTopicIds == {1, 2}

\* profile picture urls
Pics == {"p"}

\* filter words
StoreWords == {<<"a">>}

\* the contacts of the contact events here
StoreContacts == Contacts({<<"x", "x", "x">>, <<"x", "1", "x">>})

\* a conversation value in the legacy shape: the bare topic id
Legacy(id) == [shape |-> "number", telegramTopicId |-> id, profilePicUrl |-> NoPic]

\* the bridge documents a database file or a backup may hold: empty, or with
\* UserJid mapped in the legacy shape or in the current shape
StoredDocuments ==
  {[EmptyDocument EXCEPT !.chatMappings[UserJid] = v] :
     v \in {NoValue, Legacy(1)} \cup
           [shape : {"object"}, telegramTopicId : {1}, profilePicUrl : {NoPic} \cup Pics]}

\* loadMappingsFromDb: chatMappings as read from document doc
LoadedTopics(doc) ==
  [c \in Chats |-> IF doc.chatMappings[c].shape \in {"object", "number"}
                   THEN doc.chatMappings[c].telegramTopicId
                   ELSE NoTopic]

\* loadMappingsFromDb: profilePicCache after reading doc; cache is what it
\* held before (the function sets entries and deletes none)
LoadedPics(doc, cache) ==
  [c \in Chats |-> IF doc.chatMappings[c].shape = "object"
                      /\ doc.chatMappings[c].profilePicUrl # NoPic
                   THEN doc.chatMappings[c].profilePicUrl
                   ELSE cache[c]]

\* loadMappingsFromDb and loadFiltersFromDb on document doc
Load(doc) ==
  /\ chatMappings' = LoadedTopics(doc)
  /\ profilePicCache' = LoadedPics(doc, profilePicCache)
  /\ userMappings' = doc.userMappings
  /\ contactMappings' = doc.contactMappings
  /\ filters' = doc.filters

\* a process started on a database file: a new TelegramBridge, initialize()
InitStore ==
  /\ cfg = "ok"
  /\ welcomeMessage \in BOOLEAN
  /\ RouteStart /\ ShutdownStart /\ LateStart
  /\ e2e = IdleCall /\ sinkLog = <<>>
  /\ offered = NoOffer /\ storeOp = "none"
  /\ disk \in StoredDocuments
  /\ db = disk
  /\ chatMappings = LoadedTopics(db)
  /\ profilePicCache = LoadedPics(db, [c \in Chats |-> NoPic])
  /\ userMappings = db.userMappings
  /\ contactMappings = db.contactMappings
  /\ filters = db.filters
  /\ clearing = FALSE /\ addedSince = FALSE /\ lastBlocked = <<>> /\ out = NoOut
  /\ AuthStart({})
  /\ creatingTopics = [c \in Chats |-> 0]
  /\ promises = [c \in Chats |-> <<>>]
  /\ creation = [c \in Chats |-> [pc |-> "idle", topic |-> NoTopic]]
  /\ task = [t \in Tasks |-> IdleTask]
  /\ sinkTopics = {}
  /\ sinkCreated = <<>>
  /\ createFails = [c \in Chats |-> 0]
  /\ sinkDeletes = [c \in Chats |-> 0]

StoreOthers == <<cfg, welcomeMessage, creatingTopics, promises, creation, task, sinkTopics,
                 sinkCreated, createFails, sinkDeletes, clearing, addedSince, lastBlocked, out,
                 authVars, routeVars, e2e, sinkLog, shutdownVars, lateVars>>

\* getOrCreateTopic for the unmapped chat UserJid, from createForumTopic's
\* answer (topic id) to the return: the mapping is set and saved; with the
\* welcome feature on and a picture url sent, the url is cached and saved
StoreTopicCreated(id, url) ==
  /\ ~IsMapped(UserJid)
  /\ storeOp' = "mutation"
  /\ chatMappings' = [chatMappings EXCEPT ![UserJid] = id]
  /\ profilePicCache' = IF welcomeMessage /\ url # NoPic
                        THEN [profilePicCache EXCEPT ![UserJid] = url]
                        ELSE profilePicCache
  /\ UNCHANGED <<StoreOthers, userMappings, contactMappings, filters, offered>>
  /\ db' = SaveAfter
  /\ disk' \in {disk, db',
                 SavedDocument(chatMappings', profilePicCache, userMappings, contactMappings,
                               filters)}

\* the heal block of a forwarder on the mapped chat UserJid: the mapping and
\* the cached picture are deleted, the store is saved
StoreHealDelete ==
  /\ IsMapped(UserJid)
  /\ storeOp' = "mutation"
  /\ chatMappings' = [chatMappings EXCEPT ![UserJid] = NoTopic]
  /\ profilePicCache' = [profilePicCache EXCEPT ![UserJid] = NoPic]
  /\ UNCHANGED <<StoreOthers, userMappings, contactMappings, filters, offered>>
  /\ Save

\* createUserMapping(participant, whatsappMsg)
createUserMapping ==
  /\ userMappings[UserJid] < MaxInbound
  /\ storeOp' = "mutation"
  /\ userMappings' = [userMappings EXCEPT ![UserJid] = @ + 1]
  /\ UNCHANGED <<StoreOthers, chatMappings, profilePicCache, contactMappings, filters, offered>>
  /\ Save

\* addFilter(word)
addFilter(word) ==
  /\ storeOp' = "mutation"
  /\ filters' = filters \cup {word}
  /\ UNCHANGED <<StoreOthers, chatMappings, profilePicCache, userMappings, contactMappings,
                 offered>>
  /\ Save

\* clearFilters()
clearFilters ==
  /\ storeOp' = "mutation"
  /\ filters' = {}
  /\ UNCHANGED <<StoreOthers, chatMappings, profilePicCache, userMappings, contactMappings,
                 offered>>
  /\ Save

\* loadMappingsFromDb() on the running bridge (the reload after initialize())
loadMappingsFromDb ==
  /\ storeOp' = "load"
  /\ Load(db)
  /\ UNCHANGED <<StoreOthers, db, disk, offered>>

\* the restore command: global.db becomes the backup's document, is saved, and
\* the bridge reloads its tables; when the save fails the previous document
\* is put back and saved, and nothing is reloaded
Restore(backup, saved) ==
  IF saved THEN
    /\ storeOp' = "restore"
    /\ db' = backup
    /\ disk' = backup
    /\ Load(backup)
    /\ UNCHANGED <<StoreOthers, offered>>
  ELSE
    /\ storeOp' = "restoreFailed"
    /\ disk' \in {disk, db}
    /\ UNCHANGED <<StoreOthers, db, chatMappings, profilePicCache, userMappings,
                   contactMappings, filters, offered>>

\* the process dies and is started again on the database file: a new
\* TelegramBridge (empty tables, empty picture cache), initialize()
Restart ==
  /\ storeOp' = "restart"
  /\ db' = disk
  /\ chatMappings' = LoadedTopics(disk)
  /\ profilePicCache' = LoadedPics(disk, [c \in Chats |-> NoPic])
  /\ userMappings' = disk.userMappings
  /\ contactMappings' = disk.contactMappings
  /\ filters' = disk.filters
  /\ UNCHANGED <<StoreOthers, disk, offered>>

NextStore ==
  \/ \E id \in StoreTopicIds, url \in Pics \cup {NoPic} : StoreTopicCreated(id, url)
  \/ StoreHealDelete
  \/ createUserMapping
  \/ \E contact \in StoreContacts, url \in Pics \cup {NoPic} : ContactsUpdate(contact, url)
  \/ \E word \in StoreWords : addFilter(word)
  \/ clearFilters
  \/ loadMappingsFromDb
  \/ \E backup \in StoredDocuments, saved \in BOOLEAN : Restore(backup, saved)
  \/ Restart

SpecStore == InitStore /\ [][NextStore]_vars

\* ------------------------------------------------- SpecStore: claim C18
\* the document that holds exactly the tables as they are after this step
DocumentOfTables ==
  [chatMappings |-> [c \in Chats |->
                       IF chatMappings'[c] # NoTopic
                       THEN [shape |-> "object", telegramTopicId |-> chatMappings'[c],
                             profilePicUrl |-> profilePicCache'[c]]
                       ELSE NoValue],
   userMappings |-> userMappings',
   contactMappings |-> contactMappings',
   filters |-> filters']

\* C18 (as claimed): when an operation that changes the Mapping Store returns,
\* the persisted document holds the tables as they are in memory, and so does
\* the database, so that a crash after the return loses nothing, also when the
\* database save call failed.
C18_WriteThrough ==
  [][storeOp' = "mutation" => (db' = DocumentOfTables /\ disk' = DocumentOfTables)]_vars

\* ------------------------------------------------- SpecStore: claim C19
\* the document holds the tables as they are before this step: nothing
\* changed them since saveMappingsToDb wrote it
JustSaved ==
  db = SavedDocument(chatMappings, profilePicCache, userMappings, contactMappings, filters)

\* C19 (as claimed): loadMappingsFromDb after saveMappingsToDb leaves the
\* conversation -> topicId table, the contact directory, the participant table
\* and the filter set as they were before the save; and a conversation whose
\* persisted value is a bare integer is loaded as that topicId with no cached
\* profile picture.
C19_RoundTrip ==
  [][storeOp' \in {"load", "restore", "restart"} =>
       /\ (storeOp' = "load" /\ JustSaved) =>
            UNCHANGED <<chatMappings, contactMappings, userMappings, filters>>
       /\ \A c \in Chats :
            db'.chatMappings[c].shape = "number" =>
              /\ chatMappings'[c] = db'.chatMappings[c].telegramTopicId
              /\ profilePicCache'[c] = NoPic]_vars

\* --------------------------------------------------- SpecShutdown: actions
\* The timers the bridge starts, their firing, and shutdown() step by step.
MaxTimers == 2       \* pending timers of one kind
MaxQueue == 2        \* message keys waiting for a read receipt

InitShutdown == InitContacts

ShutdownOthers == <<cfg, welcomeMessage, chatMappings, userMappings, creatingTopics, promises,
                    creation, task, sinkTopics, sinkCreated, createFails, sinkDeletes,
                    filterVars, authVars, routeVars, e2eVars, profilePicCache, offered, storeOp,
                    lateVars>>

\* the Telegram bot still delivers messages: stopPolling has not resolved
Polling == shut \in {"running", "saving", "stopping"}

\* handleTelegramMessage for a text of an authenticated operator in a mapped
\* topic: sendTypingPresence replaces this.presenceTimeout, handleTelegramText
\* starts the queueing timer when the send returned an id (r), the handler
\* starts the "available" timer
TopicMessageTimers(r) ==
  /\ Polling
  /\ timers["available"] < MaxTimers
  /\ r = "id" => timers["queue"] < MaxTimers
  /\ timers' = [timers EXCEPT !["pause"] = 1,
                              !["available"] = @ + 1,
                              !["queue"] = IF r = "id" THEN @ + 1 ELSE @]
  /\ UNCHANGED <<ShutdownOthers, db, disk, messageQueue, shut, afterShutdown>>

\* queueMessageForReadReceipt(chatJid, messageKey)
queueMessageForReadReceipt ==
  /\ messageQueue' = messageQueue + 1
  /\ timers' = [timers EXCEPT !["readReceipt"] = @ + 1]

\* syncMessage reaches its end for an inbound message with a key id
InboundQueued ==
  /\ shut = "running"
  /\ messageQueue < MaxQueue /\ timers["readReceipt"] < MaxTimers
  /\ queueMessageForReadReceipt
  /\ UNCHANGED <<ShutdownOthers, db, disk, shut, afterShutdown>>

\* handleCallNotification starts the timer that forgets the call key
CallNotified ==
  /\ shut = "running"
  /\ timers["callDedup"] < MaxTimers
  /\ timers' = [timers EXCEPT !["callDedup"] = @ + 1]
  /\ UNCHANGED <<ShutdownOthers, db, disk, messageQueue, shut, afterShutdown>>

\* the Source calls the callback of a timer of kind k makes
SourceCallsOf(k) ==
  CASE k \in {"pause", "available"} -> 1
    [] k = "readReceipt" -> IF messageQueue > 0 THEN 1 ELSE 0
    [] OTHER -> 0

\* what is noted of a callback of kind k that runs: nothing before shutdown()
\* has returned
Noted(k) ==
  IF shut = "down"
  THEN [fired |-> afterShutdown.fired \cup {k},
        sourceCalls |-> afterShutdown.sourceCalls + SourceCallsOf(k)]
  ELSE afterShutdown

\* a pending timer of kind k fires and its callback runs
TimerFires(k) ==
  /\ timers[k] > 0
  /\ afterShutdown' = Noted(k)
  /\ IF k = "queue" THEN
       /\ messageQueue < MaxQueue /\ timers["readReceipt"] < MaxTimers
       /\ messageQueue' = messageQueue + 1
       /\ timers' = [timers EXCEPT !["queue"] = @ - 1, !["readReceipt"] = @ + 1]
     ELSE
       /\ timers' = [timers EXCEPT ![k] = @ - 1]
       /\ messageQueue' = IF k = "readReceipt" THEN 0 ELSE messageQueue
  /\ UNCHANGED <<ShutdownOthers, db, disk, shut>>

\* shutdown() is called: saveMappingsToDb writes the document and awaits the
\* database
ShutdownCalled ==
  /\ shut = "running"
  /\ shut' = "saving"
  /\ db' = SavedDocument(chatMappings, profilePicCache, userMappings, contactMappings, filters)
  /\ UNCHANGED <<ShutdownOthers, disk, timers, messageQueue, afterShutdown>>

\* this.presenceTimeout after clearTimeout
ClearedPresenceTimeout == [timers EXCEPT !["pause"] = 0]

\* the save returned (saved) or failed: clearTimeout(this.presenceTimeout),
\* stopPolling is called
ShutdownSaved(saved) ==
  /\ shut = "saving"
  /\ shut' = "stopping"
  /\ disk' = IF saved THEN db ELSE disk
  /\ timers' = ClearedPresenceTimeout
  /\ UNCHANGED <<ShutdownOthers, db, messageQueue, afterShutdown>>

\* stopPolling answered: the temp directory is read and emptied
ShutdownStopped ==
  /\ shut = "stopping"
  /\ shut' = "cleaning"
  /\ UNCHANGED <<ShutdownOthers, db, disk, timers, messageQueue, afterShutdown>>

\* the temp directory is clean (or could not be cleaned): shutdown() returns
ShutdownReturns ==
  /\ shut = "cleaning"
  /\ shut' = "down"
  /\ UNCHANGED <<ShutdownOthers, db, disk, timers, messageQueue, afterShutdown>>

NextShutdown ==
  \/ \E r \in SendResults : TopicMessageTimers(r)
  \/ InboundQueued
  \/ CallNotified
  \/ \E k \in TimerKinds : TimerFires(k)
  \/ ShutdownCalled
  \/ \E saved \in BOOLEAN : ShutdownSaved(saved)
  \/ ShutdownStopped
  \/ ShutdownReturns

SpecShutdown == InitShutdown /\ [][NextShutdown]_vars

\* ---------------------------------------------- SpecShutdown: claim C20
\* C20 (as claimed): once shutdown() has returned, the document holds the
\* tables, no timer is pending, no timer callback has run since, and no Source
\* call has been made since.
C20_QuietAfterShutdown ==
  shut = "down" =>
    /\ db = SavedDocument(chatMappings, profilePicCache, userMappings, contactMappings, filters)
    /\ \A k \in TimerKinds : timers[k] = 0
    /\ afterShutdown.fired = {}
    /\ afterShutdown.sourceCalls = 0

\* ---------------------------------------------------------------------------
\* SpecPresence: presence updates to the Source (sendPresence,
\* sendTypingPresence and the two timers of handleTelegramMessage), on a
\* clock of half seconds.
\* ---------------------------------------------------------------------------

MaxPresenceTicks == 6

MaxSent == 3

MaxTyping == 2

\* the clock advances in steps of half a second
ClockStep == 1000 \div 2

\* a Date.now() later than one window after the epoch
StartTime == 1000 * 1000

\* sendPresence: if (now - lastUpdate < 1000) return
PresenceWindow == 1000

\* sendTypingPresence: setTimeout(..., 3000)
PauseDelay == 3000

\* handleTelegramMessage: setTimeout(..., 2000)
AvailableDelay == 2000

InitPresence ==
  /\ cfg = "ok"
  /\ welcomeMessage = TRUE
  /\ LifecycleStart
  /\ FilterStart
  /\ authenticatedUsers = {}
  /\ sudoUsers = {}
  /\ lastAuth = [u \in Users |-> 0]
  /\ authOut = [path |-> "none", authed |-> FALSE]
  /\ now = StartTime
  /\ ticks = 0
  /\ AuxStart

PresenceOthers == <<lifecycleVars, filterVars, authenticatedUsers, sudoUsers, lastAuth, authOut,
                    routeVars, e2eVars, storeVars, shutdownVars, receiptVars, callVars,
                    statusVars, recreateVars, mediaVars, syncVars, restoreVars>>

RateLimited_Never(jid) == FALSE

\* sendPresence: const lastUpdate = this.lastPresenceUpdate.get(jid) || 0;
\* if (now - lastUpdate < 1000) return
RateLimited(jid) == now - lastPresenceUpdate[jid] < PresenceWindow

\* sendPresence(jid, presenceType) with presence updates enabled
sendPresence(jid, presenceType) ==
  /\ presenceCall' = [jid |-> jid, type |-> presenceType, at |-> now, sent |-> ~RateLimited(jid)]
  /\ IF RateLimited(jid)
       THEN UNCHANGED <<lastPresenceUpdate, presenceLog>>
       ELSE /\ lastPresenceUpdate' = [lastPresenceUpdate EXCEPT ![jid] = now]
            /\ presenceLog' = Append(presenceLog, [jid |-> jid, type |-> presenceType, at |-> now])

\* sendTypingPresence after its await: clearTimeout(this.presenceTimeout),
\* this.presenceTimeout = setTimeout(..., 3000)
ArmPause(jid) ==
  LET t == [jid |-> jid, due |-> now + PauseDelay]
  IN /\ pauseTimers' = (pauseTimers \ {presenceTimeout}) \cup {t}
     /\ presenceTimeout' = t

\* handleTelegramMessage reaches await this.sendTypingPresence(whatsappJid):
\* sendPresence runs up to its await of the Source, or returns at once
TypingCalled(jid) ==
  /\ handling[jid] = "idle"
  /\ typed < MaxTyping
  /\ typed' = typed + 1
  /\ Len(presenceLog) < MaxSent
  /\ lastTyping' = [jid |-> jid, due |-> now]
  /\ sendPresence(jid, "composing")
  /\ IF RateLimited(jid)
       THEN /\ ArmPause(jid)
            /\ handling' = [handling EXCEPT ![jid] = "forwarding"]
       ELSE /\ handling' = [handling EXCEPT ![jid] = "sending"]
            /\ UNCHANGED <<pauseTimers, presenceTimeout>>
  /\ UNCHANGED <<PresenceOthers, availableTimers, now, ticks>>

\* the Source answered sendPresenceUpdate("composing"): the timer is armed
TypingSendDone(jid) ==
  /\ handling[jid] = "sending"
  /\ ArmPause(jid)
  /\ handling' = [handling EXCEPT ![jid] = "forwarding"]
  /\ UNCHANGED <<PresenceOthers, availableTimers, lastPresenceUpdate, presenceLog, presenceCall,
                 lastTyping, typed, now, ticks>>

\* the forwarder returned: setTimeout(() => sendPresence(jid, "available"), 2000)
ForwardDone(jid) ==
  /\ handling[jid] = "forwarding"
  /\ handling' = [handling EXCEPT ![jid] = "idle"]
  /\ availableTimers' = availableTimers \cup {[jid |-> jid, due |-> now + AvailableDelay]}
  /\ UNCHANGED <<PresenceOthers, pauseTimers, presenceTimeout, lastPresenceUpdate, presenceLog,
                 presenceCall, lastTyping, typed, now, ticks>>

\* the timer of sendTypingPresence fires
PauseFires(t) ==
  /\ t \in pauseTimers
  /\ t.due <= now
  /\ Len(presenceLog) < MaxSent
  /\ pauseTimers' = pauseTimers \ {t}
  /\ sendPresence(t.jid, "paused")
  /\ UNCHANGED <<PresenceOthers, availableTimers, presenceTimeout, handling, lastTyping, typed,
                 now, ticks>>

\* the timer of handleTelegramMessage fires
AvailableFires(t) ==
  /\ t \in availableTimers
  /\ t.due <= now
  /\ Len(presenceLog) < MaxSent
  /\ availableTimers' = availableTimers \ {t}
  /\ sendPresence(t.jid, "available")
  /\ UNCHANGED <<PresenceOthers, pauseTimers, presenceTimeout, handling, lastTyping, typed,
                 now, ticks>>

\* half a second passes; a timer that is due fires before the clock moves on
PresenceTick ==
  /\ ticks < MaxPresenceTicks
  /\ \A t \in pauseTimers \cup availableTimers : t.due > now
  /\ now' = now + ClockStep
  /\ ticks' = ticks + 1
  /\ UNCHANGED <<PresenceOthers, presenceVars>>

NextPresence ==
  \/ \E jid \in Chats : TypingCalled(jid)
  \/ \E jid \in Chats : TypingSendDone(jid)
  \/ \E jid \in Chats : ForwardDone(jid)
  \/ \E t \in pauseTimers : PauseFires(t)
  \/ \E t \in availableTimers : AvailableFires(t)
  \/ PresenceTick

SpecPresence == InitPresence /\ [][NextPresence]_vars

\* the presence updates handed to the Source for one conversation
SentTo(jid) == {i \in 1..Len(presenceLog) : presenceLog[i].jid = jid}

\* C21: a presence update is handed to the Source only a second or more after
\* every earlier update of the same conversation, and a sendPresence call that
\* comes sooner hands nothing to the Source, in that step or in a later one
\* (every update in the log is the work of the call that was made at its time).
C21_RateLimit ==
  [][/\ presenceLog' # presenceLog =>
          LET e == presenceLog'[Len(presenceLog')]
          IN /\ presenceLog' = Append(presenceLog, e)
             /\ e = [jid |-> presenceCall'.jid, type |-> presenceCall'.type, at |-> now]
             /\ presenceCall'.sent
             /\ \A i \in SentTo(e.jid) : e.at - presenceLog[i].at >= PresenceWindow
     /\ (presenceCall' # presenceCall /\ ~presenceCall'.sent) => presenceLog' = presenceLog
    ]_vars

\* C21 witness: a call was dropped, and two updates of its conversation went out
C21_Witness ==
  /\ presenceCall # NoPresenceCall
  /\ ~presenceCall.sent
  /\ \E i, j \in SentTo(presenceCall.jid) :
       /\ i < j
       /\ presenceLog[j].at - presenceLog[i].at >= PresenceWindow
       /\ presenceCall.at - presenceLog[j].at < PresenceWindow

\* the "paused" updates handed to the Source for the conversation of the
\* latest sendTypingPresence call, at or after that call
PausedSince == {i \in SentTo(lastTyping.jid) :
                  presenceLog[i].type = "paused" /\ presenceLog[i].at >= lastTyping.due}

\* C22 (as claimed): never more than one pause timer is pending, and once every
\* sendTypingPresence call has armed its timer and no pause timer is pending
\* any more, a "paused" update has gone to the conversation of the most recent
\* sendTypingPresence call.
C22_OnePauseTimer ==
  /\ Cardinality(pauseTimers) <= 1
  /\ (/\ lastTyping # NoTimer
      /\ pauseTimers = {}
      /\ \A c \in Chats : handling[c] # "sending")
     => PausedSince # {}

\* the first half of C22 alone
C22_AtMostOnePending == Cardinality(pauseTimers) <= 1

\* the pause timer of the most recent call fired and its "paused" was dropped
C22_PauseDropped ==
  /\ presenceCall.type = "paused"
  /\ presenceCall.jid = lastTyping.jid
  /\ presenceCall.at = lastTyping.due + PauseDelay
  /\ ~presenceCall.sent

\* ---------------------------------------------------------------------------
\* SpecReceipts: the read-receipt queue of one conversation
\* (queueMessageForReadReceipt, processReadReceipts). The timers all run for
\* 2000 ms, so they fire in the order in which they were started.
\* ---------------------------------------------------------------------------

MaxKeys == 3

MaxBatches == 3

InitReceipts == InitContacts

ReceiptOthers == <<lifecycleVars, filterVars, authVars, routeVars, e2eVars, storeVars,
                   shutdownVars, presenceVars, callVars, statusVars, recreateVars, mediaVars,
                   syncVars, restoreVars>>

\* queueMessageForReadReceipt(chatJid, messageKey) with read receipts enabled:
\* push the key, setTimeout(() => this.processReadReceipts(chatJid), 2000);
\* the handle of the timer is not kept
EnqueueKey ==
  /\ enqueued < MaxKeys
  /\ enqueued' = enqueued + 1
  /\ receiptQueue' = Append(receiptQueue, enqueued + 1)
  /\ receiptTimers' = receiptTimers + 1
  /\ UNCHANGED <<ReceiptOthers, reading, readLog, readFailed>>

\* a timer fires: processReadReceipts up to its await of readMessages, or to
\* its return when the queue is empty
processReadReceipts ==
  /\ receiptTimers > 0
  /\ receiptTimers' = receiptTimers - 1
  /\ IF receiptQueue = <<>>
       THEN UNCHANGED <<reading, readLog>>
       ELSE /\ Len(readLog) < MaxBatches
            /\ reading' = reading + 1
            /\ readLog' = Append(readLog, [keys |-> receiptQueue, latest |-> receiptTimers = 1])
  /\ UNCHANGED <<ReceiptOthers, receiptQueue, enqueued, readFailed>>

\* readMessages resolved: this.messageQueue.set(chatJid, [])
ReadDone ==
  /\ reading > 0
  /\ reading' = reading - 1
  /\ receiptQueue' = <<>>
  /\ UNCHANGED <<ReceiptOthers, receiptTimers, readLog, enqueued, readFailed>>

\* readMessages rejected: the catch logs, the queue stays as it is
ReadThrows ==
  /\ reading > 0
  /\ reading' = reading - 1
  /\ readFailed' = TRUE
  /\ UNCHANGED <<ReceiptOthers, receiptQueue, receiptTimers, readLog, enqueued>>

NextReceipts ==
  \/ EnqueueKey
  \/ processReadReceipts
  \/ ReadDone
  \/ ReadThrows

SpecReceipts == InitReceipts /\ [][NextReceipts]_vars

\* the batches that carry the key
BatchesOf(k) == {i \in 1..Len(readLog) : \E j \in 1..Len(readLog[i].keys) : readLog[i].keys[j] = k}

\* C23 (as claimed): an enqueue cancels the flush timer started before it, so
\* never more than one flush timer is pending, and every read-messages call is
\* made by the timer of the most recent enqueue.
C23_LatestTimerOnly ==
  /\ receiptTimers <= 1
  /\ \A i \in 1..Len(readLog) : readLog[i].latest

\* a batch of two keys went out while the timer of the second key was pending
C23_EarlierTimerFlushed ==
  /\ ~readFailed
  /\ \E i \in 1..Len(readLog) : Len(readLog[i].keys) = 2 /\ ~readLog[i].latest

\* C24 (as claimed): no key is passed to readMessages more than once, and when
\* no timer is pending and no flush is suspended every enqueued key has been
\* passed to readMessages.
C24_EachKeyOnce ==
  /\ \A k \in 1..enqueued : Cardinality(BatchesOf(k)) <= 1
  /\ (receiptTimers = 0 /\ reading = 0) => \A k \in 1..enqueued : BatchesOf(k) # {}

\* no call failed, nothing is pending, and a key was never passed to readMessages
C24_KeyLost ==
  /\ ~readFailed /\ receiptTimers = 0 /\ reading = 0
  /\ \E k \in 1..enqueued : BatchesOf(k) = {}

\* no call failed, and a key was passed to readMessages twice
C24_KeyTwice ==
  /\ ~readFailed
  /\ \E k \in 1..enqueued : Cardinality(BatchesOf(k)) > 1

\* ---------------------------------------------------------------------------
\* SpecCalls: handleCallNotification with call logs enabled, on a clock of
\* quarter minutes. The mapping of "call@broadcast" is callTopic.
\* ---------------------------------------------------------------------------

MaxCallTicks == 5

MaxCalls == 3

\* setTimeout(() => this.activeCallNotifications.delete(callKey), 30000)
CallWindow == 30000

CallStep == 30000 \div 2

\* `${callerId}_${callEvent.id}` for two calls of one caller
CallKeys == {"111@s.whatsapp.net_1", "111@s.whatsapp.net_2"}

\* what the Sink does with the notification: the topic cannot be had, the
\* send succeeds, the thread is gone and the retry succeeds, fails or has no
\* topic, the send fails otherwise
CallOutcomes == {"notopic", "ok", "healed", "healfails", "healnotopic", "fails"}

InitCalls == InitPresence

CallOthers == <<lifecycleVars, filterVars, authenticatedUsers, sudoUsers, lastAuth, authOut,
                routeVars, e2eVars, storeVars, shutdownVars, presenceVars, receiptVars,
                statusVars, recreateVars, mediaVars, syncVars, restoreVars>>

HeldBack_Never(callKey) == FALSE

\* if (this.activeCallNotifications.has(callKey)) return
HeldBack(callKey) == callKey \in activeCallNotifications

\* the messages the Sink accepted for one event that passed the gate
Delivered(o) == IF o \in {"ok", "healed"} THEN 1 ELSE 0

\* the call topic after the handler: created when absent, dropped and
\* created again on the healing path
CallTopicAfter(o) ==
  CASE o = "notopic" -> callTopic
    [] o \in {"ok", "fails"} -> IF callTopic = NoTopic THEN 1 ELSE callTopic
    [] o \in {"healed", "healfails"} -> 2
    [] o = "healnotopic" -> NoTopic

\* the retried sendMessage stands in the catch block with no try of its own:
\* its failure leaves handleCallNotification as a rejection, and the "call"
\* listener, which awaits it in a bare loop, rejects with it
Rejects(o) == o = "healfails"

\* handleCallNotification(callEvent)
handleCallNotification(callKey, o) ==
  /\ Len(callLog) < MaxCalls
  /\ o = "notopic" => callTopic = NoTopic
  /\ IF HeldBack(callKey)
       THEN /\ callLog' = Append(callLog, [key |-> callKey, at |-> now, notified |-> FALSE,
                                           delivered |-> 0, rejected |-> FALSE])
            /\ UNCHANGED <<activeCallNotifications, callTimers, callTopic>>
       ELSE /\ activeCallNotifications' = activeCallNotifications \cup {callKey}
            /\ callTimers' = callTimers \cup {[key |-> callKey, due |-> now + CallWindow]}
            /\ callTopic' = CallTopicAfter(o)
            /\ callLog' = Append(callLog, [key |-> callKey, at |-> now, notified |-> TRUE,
                                           delivered |-> Delivered(o), rejected |-> Rejects(o)])
  /\ UNCHANGED <<CallOthers, now, ticks>>

\* the timer fires: this.activeCallNotifications.delete(callKey)
CallKeyExpires(t) ==
  /\ t \in callTimers
  /\ t.due <= now
  /\ callTimers' = callTimers \ {t}
  /\ activeCallNotifications' = activeCallNotifications \ {t.key}
  /\ UNCHANGED <<CallOthers, callLog, callTopic, now, ticks>>

\* a quarter of a minute passes; a timer that is due fires first
CallTick ==
  /\ ticks < MaxCallTicks
  /\ \A t \in callTimers : t.due > now
  /\ now' = now + CallStep
  /\ ticks' = ticks + 1
  /\ UNCHANGED <<CallOthers, callVars>>

NextCalls ==
  \/ \E k \in CallKeys, o \in CallOutcomes : handleCallNotification(k, o)
  \/ \E t \in callTimers : CallKeyExpires(t)
  \/ CallTick

SpecCalls == InitCalls /\ [][NextCalls]_vars

\* the events of the key that were let through before event j
NotifiedBefore(j) == {i \in 1..(j - 1) : callLog[i].key = callLog[j].key /\ callLog[i].notified}

MaxStatus == 2

MaxReplies == 2

MaxHeals == 1

\* the authors of status messages
Authors == {"111@s.whatsapp.net", "333@s.whatsapp.net"}

\* getMediaType: the first payload found, "text" when none
StatusTypes == {"text", "image", "video", "audio", "document", "sticker", "location", "contact"}

\* forwardStatusMedia: the cases of its switch
SwitchCases == {"image", "video", "audio"}

\* what a Sink call does: it succeeds, the thread is gone, it fails otherwise
SinkResults == {"ok", "gone", "fails"}

InitStatus == InitContacts

StatusOthers == <<lifecycleVars, filterVars, authVars, routeVars, e2eVars, storeVars,
                  shutdownVars, presenceVars, receiptVars, callVars, recreateVars, mediaVars,
                  syncVars, restoreVars>>

\* the Sink accepted a message of this kind for the status in hand
SinkAccepts(kind) ==
  statusSink' = Append(statusSink, [id |-> Len(statusSink) + 1, kind |-> kind, of |-> status.id])

\* this.statusMessageMapping.set(sentMsg.message_id, whatsappMsg.key)
Recorded ==
  statusMessageMapping' = statusMessageMapping \cup
    {[id |-> Len(statusSink) + 1, key |-> [id |-> status.id, participant |-> status.participant]]}

\* the catch of handleStatusMessage on "message thread not found": the
\* mapping is deleted and saved, the function calls itself
StatusHeal ==
  /\ status.heals < MaxHeals
  /\ statusTopic' = NoTopic
  /\ status' = [status EXCEPT !.pc = "topic", !.heals = @ + 1, !.clean = FALSE]

\* syncMessage finds sender === "status@broadcast": handleStatusMessage starts
StatusArrives(participant, type) ==
  /\ status.pc \in {"idle", "returned"}
  /\ statusSeen < MaxStatus
  /\ statusSeen' = statusSeen + 1
  /\ status' = [NoStatus EXCEPT !.pc = "topic", !.id = statusSeen + 1,
                                !.participant = participant, !.type = type]
  /\ UNCHANGED <<StatusOthers, statusMessageMapping, statusSink, statusTopic, reply, replies,
                 sourceSends>>

\* getOrCreateTopic("status@broadcast") returned: the mapped topic, a new
\* one, or null; getMediaType then picks the branch
StatusTopic(created) ==
  /\ status.pc = "topic"
  /\ IF statusTopic # NoTopic
       THEN /\ UNCHANGED statusTopic
            /\ status' = [status EXCEPT !.pc = IF status.type = "text" THEN "text" ELSE "download"]
       ELSE IF created
         THEN /\ statusTopic' = status.heals + 1
              /\ status' = [status EXCEPT !.pc = IF status.type = "text" THEN "text" ELSE "download"]
         ELSE /\ UNCHANGED statusTopic
              /\ status' = [status EXCEPT !.pc = "returned", !.clean = FALSE]
  /\ UNCHANGED <<StatusOthers, statusMessageMapping, statusSink, statusSeen, reply, replies,
                 sourceSends>>

\* the text mirror: sendMessage answered
StatusTextSent(r) ==
  /\ status.pc = "text"
  /\ CASE r = "ok" -> /\ SinkAccepts("text")
                      /\ Recorded
                      /\ status' = [status EXCEPT !.pc = "returned"]
                      /\ UNCHANGED statusTopic
       [] r = "gone" -> /\ StatusHeal
                        /\ UNCHANGED <<statusSink, statusMessageMapping>>
       [] r = "fails" -> /\ status' = [status EXCEPT !.pc = "returned", !.clean = FALSE]
                         /\ UNCHANGED <<statusSink, statusMessageMapping, statusTopic>>
  /\ UNCHANGED <<StatusOthers, statusSeen, reply, replies, sourceSends>>

\* forwardStatusMedia: _downloadWhatsAppMediaContent answered; a payload
\* outside the switch is sent by nobody and the function returns
StatusDownloaded(ok) ==
  /\ status.pc = "download"
  /\ status' = IF ~ok THEN [status EXCEPT !.pc = "errortext", !.clean = FALSE]
               ELSE IF status.type \in SwitchCases THEN [status EXCEPT !.pc = "media"]
               ELSE [status EXCEPT !.pc = "returned"]
  /\ UNCHANGED <<StatusOthers, statusMessageMapping, statusSink, statusTopic, statusSeen, reply,
                 replies, sourceSends>>

\* forwardStatusMedia: sendPhoto, sendVideo or sendAudio answered; on a
\* thread that is gone the mapping is deleted, the topic created again and
\* the function calls itself
StatusMediaSent(r, created) ==
  /\ status.pc = "media"
  /\ CASE r = "ok" -> /\ SinkAccepts("media")
                      /\ Recorded
                      /\ status' = [status EXCEPT !.pc = "returned"]
                      /\ UNCHANGED statusTopic
       [] r = "gone" -> /\ status.heals < MaxHeals
                        /\ statusTopic' = IF created THEN status.heals + 2 ELSE NoTopic
                        /\ status' = [status EXCEPT !.pc = IF created THEN "download" ELSE "returned",
                                                    !.heals = @ + 1, !.clean = FALSE]
                        /\ UNCHANGED <<statusSink, statusMessageMapping>>
       [] r = "fails" -> /\ status' = [status EXCEPT !.pc = "errortext", !.clean = FALSE]
                         /\ UNCHANGED <<statusSink, statusMessageMapping, statusTopic>>
  /\ UNCHANGED <<StatusOthers, statusSeen, reply, replies, sourceSends>>

\* forwardStatusMedia: the "Failed to forward status media" message answered;
\* its failure reaches the catch of handleStatusMessage
StatusErrorTextSent(r) ==
  /\ status.pc = "errortext"
  /\ CASE r = "ok" -> /\ SinkAccepts("error")
                      /\ status' = [status EXCEPT !.pc = "returned"]
                      /\ UNCHANGED statusTopic
       [] r = "gone" -> /\ StatusHeal
                        /\ UNCHANGED statusSink
       [] r = "fails" -> /\ status' = [status EXCEPT !.pc = "returned"]
                         /\ UNCHANGED <<statusSink, statusTopic>>
  /\ UNCHANGED <<StatusOthers, statusMessageMapping, statusSeen, reply, replies, sourceSends>>

\* the mirrors of the status in hand
MirrorsOf(id) == {i \in 1..Len(statusSink) :
                    statusSink[i].of = id /\ statusSink[i].kind \in {"text", "media"}}

\* C26 (as claimed): when handleStatusMessage has returned and no call it
\* made has failed, the Sink holds exactly one mirror of the status, a media
\* message when the payload is not text and a text message otherwise, and
\* statusMessageMapping holds the mirror's id with the key of the status.
C26_StatusMirrored ==
  (status.pc = "returned" /\ status.clean) =>
    /\ Cardinality(MirrorsOf(status.id)) = 1
    /\ \A i \in MirrorsOf(status.id) :
         /\ statusSink[i].kind = (IF status.type = "text" THEN "text" ELSE "media")
         /\ [id |-> statusSink[i].id,
             key |-> [id |-> status.id, participant |-> status.participant]]
              \in statusMessageMapping

\* the same for the payloads of the switch and for text: these are mirrored
C26_SwitchCasesMirrored ==
  (status.type \in SwitchCases \cup {"text"}) => C26_StatusMirrored

\* a status with a document was handled with every call succeeding, and the
\* Sink holds nothing of it
C26_DocumentDropped ==
  /\ status.pc = "returned" /\ status.clean
  /\ status.type = "document"
  /\ \A i \in 1..Len(statusSink) : statusSink[i].of # status.id

ReplyTarget_Broadcast(key) == "status@broadcast"

\* handleStatusReply: const statusJid = originalStatusKey.participant
ReplyTarget(key) == key.participant

\* handleTelegramMessage: return after await this.handleStatusReply(msg)
ReturnsAfterReply == TRUE

\* this.statusMessageMapping.get(msg.reply_to_message.message_id)
StatusKeysOf(target) == {e \in statusMessageMapping : e.id = target}

\* the catch of handleStatusReply reads contactName, a const of the try
\* block: the read throws, the "Failed to send reply" message is not sent, and
\* the catch of handleTelegramMessage sets the reaction
CatchSigns(reactOk) == IF reactOk THEN {"errReaction"} ELSE {}

\* an authenticated operator replies in the status topic to a Sink message;
\* sendTypingPresence has been awaited
ReplyArrives(target) ==
  /\ statusTopic # NoTopic
  /\ reply.pc \in {"idle", "returned"}
  /\ replies < MaxReplies
  /\ replies' = replies + 1
  /\ reply' = [NoReply EXCEPT !.pc = "lookup", !.n = replies + 1, !.target = target]
  /\ UNCHANGED <<StatusOthers, statusMessageMapping, statusSink, statusTopic, status, statusSeen,
                 sourceSends>>

\* handleStatusReply up to its first await: the lookup, then the "Cannot
\* find" message or whatsappClient.sendMessage(statusJid, messageOptions)
ReplyLookup ==
  /\ reply.pc = "lookup"
  /\ IF StatusKeysOf(reply.target) = {}
       THEN /\ reply' = [reply EXCEPT !.pc = "notfound"]
            /\ UNCHANGED sourceSends
       ELSE LET key == (CHOOSE e \in StatusKeysOf(reply.target) : TRUE).key
            IN /\ reply' = [reply EXCEPT !.pc = "sending", !.found = TRUE]
               /\ sourceSends' = Append(sourceSends,
                    [to |-> ReplyTarget(key), stanzaId |-> key.id,
                     participant |-> key.participant, n |-> reply.n])
  /\ UNCHANGED <<StatusOthers, statusMessageMapping, statusSink, statusTopic, status, statusSeen,
                 replies>>

\* the "Cannot find original status" message answered
ReplyNotFoundSent(sinkOk, reactOk) ==
  /\ reply.pc = "notfound"
  /\ reply' = [reply EXCEPT !.pc = "returned", !.result = IF sinkOk /\ reactOk THEN "up" ELSE "down",
                            !.signs = IF sinkOk THEN {"notfound"} ELSE CatchSigns(reactOk),
                            !.forwarded = ~ReturnsAfterReply]
  /\ UNCHANGED <<StatusOthers, statusMessageMapping, statusSink, statusTopic, status, statusSeen,
                 replies, sourceSends>>

\* the Source answered the reply: a key id, no key id, or a rejection
ReplySourceDone(r, sinkOk, reactOk) ==
  /\ reply.pc = "sending"
  /\ reply' = [reply EXCEPT
       !.pc = "returned",
       !.result = IF r # "id" THEN (IF reactOk THEN "failed" ELSE "failedDown")
                  ELSE IF sinkOk /\ reactOk THEN "up" ELSE "down",
       !.signs = IF r = "id" /\ sinkOk
                   THEN {"sent"} \cup (IF reactOk THEN {"okReaction"} ELSE {})
                   ELSE CatchSigns(reactOk),
       !.forwarded = ~ReturnsAfterReply]
  /\ UNCHANGED <<StatusOthers, statusMessageMapping, statusSink, statusTopic, status, statusSeen,
                 replies, sourceSends>>

NextStatus ==
  \/ \E a \in Authors, t \in StatusTypes : StatusArrives(a, t)
  \/ \E created \in BOOLEAN : StatusTopic(created)
  \/ \E r \in SinkResults : StatusTextSent(r)
  \/ \E ok \in BOOLEAN : StatusDownloaded(ok)
  \/ \E r \in SinkResults, created \in BOOLEAN : StatusMediaSent(r, created)
  \/ \E r \in SinkResults : StatusErrorTextSent(r)
  \/ \E target \in 1..(MaxStatus + 1) : ReplyArrives(target)
  \/ ReplyLookup
  \/ \E sinkOk, reactOk \in BOOLEAN : ReplyNotFoundSent(sinkOk, reactOk)
  \/ \E r \in {"id", "noid", "throws"}, sinkOk, reactOk \in BOOLEAN : ReplySourceDone(r, sinkOk, reactOk)

SpecStatus == InitStatus /\ [][NextStatus]_vars

\* the Source sends made for the reply in hand
SendsOfReply == {i \in 1..Len(sourceSends) : sourceSends[i].n = reply.n}

\* the signs of an error the operator can see
ErrorSigns == {"notfound", "failedText", "errReaction"}

\* C27: when handleStatusReply has returned, a reply to a mirrored status
\* has made exactly one Source send, to the author of that status and with
\* its key id as the quoted stanza; a reply to a message outside the index has
\* made none; a reply outside the index or a Source send that failed has left
\* an error sign on the Sink when the Sink took the call; the reply was not
\* handed to a forwarder.
C27_StatusReply ==
  reply.pc = "returned" =>
    /\ reply.found =>
         /\ Cardinality(SendsOfReply) = 1
         /\ \A i \in SendsOfReply : \E e \in StatusKeysOf(reply.target) :
              /\ sourceSends[i].to = e.key.participant
              /\ sourceSends[i].stanzaId = e.key.id
    /\ ~reply.found => SendsOfReply = {}
    /\ (~reply.found /\ reply.result = "up") => "notfound" \in reply.signs
    /\ reply.result = "failed" => reply.signs \cap ErrorSigns # {}
    /\ ~reply.forwarded

\* C27 witness: the second reply went to a mirrored status of the second
\* author and its Source send failed; the first reply went outside the index
C27_Witness ==
  /\ reply.pc = "returned" /\ reply.n = 2
  /\ reply.found /\ reply.result = "failed"
  /\ \E i \in SendsOfReply : sourceSends[i].to = "333@s.whatsapp.net"
  /\ Len(sourceSends) = 1

\* the message "Failed to send reply" of the catch is never sent
C27_NoFailureText == "failedText" \notin reply.signs

\* ---------------------------------------------------------------------------
\* SpecRecreate: recreateMissingTopics and verifyTopicExists over two mapped
\* conversations, with topics deleted on the Sink between the passes.
\* ---------------------------------------------------------------------------

MaxPasses == 2

\* the order of this.chatMappings.entries()
ScanOrder == <<UserJid, GroupJid>>

\* the answers of getForumTopic: it resolves, it rejects with "message
\* thread not found", it rejects otherwise
ProbeResults == {"ok", "notfound", "error"}

\* both conversations are mapped; each topic exists on the Sink or was deleted
InitRecreate ==
  /\ cfg = "ok"
  /\ welcomeMessage = TRUE
  /\ chatMappings = [c \in Chats |-> IF c = UserJid THEN 1 ELSE 2]
  /\ userMappings = [c \in {UserJid} |-> 0]
  /\ db = saveMappingsToDb(chatMappings, userMappings, {})
  /\ creatingTopics = [c \in Chats |-> 0]
  /\ promises = [c \in Chats |-> <<>>]
  /\ creation = [c \in Chats |-> [pc |-> "idle", topic |-> NoTopic]]
  /\ task = [t \in Tasks |-> IdleTask]
  /\ sinkTopics \in SUBSET {1, 2}
  /\ sinkCreated = <<>>
  /\ createFails = [c \in Chats |-> 0]
  /\ sinkDeletes = [c \in Chats |-> 0]
  /\ FilterStart
  /\ AuthStart({})
  /\ AuxStart

RecreateOthers == <<cfg, welcomeMessage, userMappings, creatingTopics, promises, creation, task,
                    sinkCreated, createFails, sinkDeletes, filterVars, authVars, routeVars,
                    e2eVars, storeVars, shutdownVars, presenceVars, receiptVars, callVars,
                    statusVars, mediaVars, syncVars, restoreVars>>

\* verifyTopicExists after getForumTopic answered: true when it resolved,
\* false when it rejected, whatever the reason
ProbedExists(r) == r = "ok"

\* verifyTopicExists(topicId): the cached answer when there is one
verifyTopicExists(topicId, r) ==
  IF topicVerificationCache[topicId] # "none"
    THEN topicVerificationCache[topicId] = "true"
    ELSE ProbedExists(r)

\* the operator deletes a topic on the Sink while no pass is running
SinkTopicDeleted(tp) ==
  /\ pass.pc \in {"idle", "done"}
  /\ tp \in sinkTopics
  /\ sinkTopics' = sinkTopics \ {tp}
  /\ UNCHANGED <<RecreateOthers, chatMappings, db, recreateVars>>

\* recreateMissingTopics() is called
RecreateCalled ==
  /\ pass.pc \in {"idle", "done"}
  /\ pass.n < MaxPasses
  /\ pass' = [NoPass EXCEPT !.pc = "scan", !.n = pass.n + 1, !.before = chatMappings,
                            !.existed = sinkTopics]
  /\ UNCHANGED <<RecreateOthers, chatMappings, db, sinkTopics, topicVerificationCache, made>>

\* the first loop: one entry of chatMappings is probed
ProbeEntry(r) ==
  /\ pass.pc = "scan"
  /\ LET jid == ScanOrder[pass.i]
         topicId == chatMappings[jid]
         last == pass.i = Len(ScanOrder)
         exists == topicId = NoTopic \/ verifyTopicExists(topicId, r)
         list == IF exists THEN pass.toRecreate ELSE Append(pass.toRecreate, jid)
     IN /\ topicId # NoTopic /\ topicVerificationCache[topicId] = "none" =>
             r \in (IF topicId \in sinkTopics THEN {"ok", "error"} ELSE {"notfound", "error"})
        /\ topicVerificationCache' =
             IF topicId # NoTopic /\ topicVerificationCache[topicId] = "none"
               THEN [topicVerificationCache EXCEPT ![topicId] = IF ProbedExists(r) THEN "true" ELSE "false"]
               ELSE topicVerificationCache
        /\ pass' = [pass EXCEPT !.toRecreate = list,
                                !.i = IF last THEN 1 ELSE pass.i + 1,
                                !.pc = IF ~last THEN "scan"
                                       ELSE IF list = <<>> THEN "done" ELSE "recreate"]
  /\ UNCHANGED <<RecreateOthers, chatMappings, db, sinkTopics, made>>

\* the second loop: the mapping is deleted and saved, getOrCreateTopic makes
\* a topic and saves, or returns null
RecreateEntry(created) ==
  /\ pass.pc = "recreate"
  /\ made < MaxMade
  /\ LET jid == pass.toRecreate[pass.i]
         last == pass.i = Len(pass.toRecreate)
         topicId == 3 + made
     IN /\ chatMappings' = [chatMappings EXCEPT ![jid] = IF created THEN topicId ELSE NoTopic]
        /\ sinkTopics' = IF created THEN sinkTopics \cup {topicId} ELSE sinkTopics
        /\ made' = IF created THEN made + 1 ELSE made
        /\ pass' = [pass EXCEPT !.i = pass.i + 1, !.pc = IF last THEN "done" ELSE "recreate",
                                !.clean = pass.clean /\ created]
  /\ db' = saveMappingsToDb(chatMappings', userMappings, filters)
  /\ UNCHANGED <<RecreateOthers, topicVerificationCache>>

NextRecreate ==
  \/ \E tp \in TopicIds : SinkTopicDeleted(tp)
  \/ RecreateCalled
  \/ \E r \in ProbeResults : ProbeEntry(r)
  \/ \E created \in BOOLEAN : RecreateEntry(created)

SpecRecreate == InitRecreate /\ [][NextRecreate]_vars

\* C28 (as claimed): when a pass in which every topic creation succeeded has
\* ended, a conversation whose topic existed on the Sink has the mapping it
\* had, and a conversation whose topic was missing is mapped to another topic,
\* which exists.
C28_RecreateIff ==
  (pass.pc = "done" /\ pass.clean) =>
    \A c \in Chats :
      pass.before[c] # NoTopic =>
        IF pass.before[c] \in pass.existed
          THEN chatMappings[c] = pass.before[c]
          ELSE chatMappings[c] \notin {NoTopic, pass.before[c]} /\ chatMappings[c] \in sinkTopics

\* the first pass ended, every topic existed, and a mapping was replaced
C28_ExistingRecreated ==
  /\ pass.pc = "done" /\ pass.n = 1 /\ pass.clean
  /\ pass.existed = {1, 2}
  /\ \E c \in Chats : chatMappings[c] # pass.before[c]

\* a pass ended and left a conversation mapped to a topic that was missing
\* when the pass began
C28_MissingKept ==
  /\ pass.pc = "done" /\ pass.clean
  /\ \E c \in Chats : pass.before[c] \notin pass.existed /\ chatMappings[c] = pass.before[c]

\* ---------------------------------------------------------------------------
\* SpecMedia: handleWhatsAppMedia for the media messages of UserJid: download,
\* scratch file, Sink send, sticker fallback, healing of a deleted topic.
\* ---------------------------------------------------------------------------

MaxMedia == 2

\* the hints of the switch that send the scratch file as it is
MediaHints == {"image", "video", "audio", "document", "sticker"}

\* mediaMessage.fileName || `media-${Date.now()}.${extension}`: a document
\* with a name keeps it (name 0), every other download gets a name of its own
ScratchName(named) == [name |-> IF named THEN 0 ELSE downloads + 1, ext |-> "as sent"]

\* filePath.replace(".webp", ".png")
PngPath(file) == [file EXCEPT !.ext = "png"]

InitMedia ==
  /\ cfg = "ok"
  /\ welcomeMessage = TRUE
  /\ chatMappings = [c \in Chats |-> IF c = UserJid THEN 1 ELSE NoTopic]
  /\ userMappings = [c \in {UserJid} |-> 0]
  /\ db = saveMappingsToDb(chatMappings, userMappings, {})
  /\ creatingTopics = [c \in Chats |-> 0]
  /\ promises = [c \in Chats |-> <<>>]
  /\ creation = [c \in Chats |-> [pc |-> "idle", topic |-> NoTopic]]
  /\ task = [t \in Tasks |-> IdleTask]
  /\ sinkTopics \in SUBSET {1}
  /\ sinkCreated = <<>>
  /\ createFails = [c \in Chats |-> 0]
  /\ sinkDeletes = [c \in Chats |-> 0]
  /\ FilterStart
  /\ AuthStart({})
  /\ AuxStart

MediaOthers == <<cfg, welcomeMessage, userMappings, creatingTopics, promises, creation, task,
                 sinkCreated, createFails, sinkDeletes, filterVars, authVars, routeVars,
                 e2eVars, storeVars, shutdownVars, presenceVars, receiptVars, callVars,
                 statusVars, recreateVars, syncVars, restoreVars>>

\* what a Sink send into the topic of the call can answer
MediaSendResults == IF media.topic \in sinkTopics THEN {"ok", "fails"} ELSE {"gone"}

\* the catch of sendMedia on "message thread not found": the mapping is
\* deleted and saved, getOrCreateTopic makes a topic or returns null, and
\* sendMedia runs again; the scratch files stay where they are
MediaHeal(created) ==
  /\ media.heals < MaxHeals
  /\ chatMappings' = [chatMappings EXCEPT ![UserJid] = IF created THEN media.topic + 1 ELSE NoTopic]
  /\ sinkTopics' = IF created THEN sinkTopics \cup {media.topic + 1} ELSE sinkTopics
  /\ db' = saveMappingsToDb(chatMappings', userMappings, filters)
  /\ media' = [media EXCEPT !.pc = IF created THEN "download" ELSE "returned",
                            !.topic = IF created THEN media.topic + 1 ELSE media.topic,
                            !.heals = @ + 1]

\* the catch of sendMedia on any other error: it is logged
MediaFails(what) == media' = [media EXCEPT !.pc = "returned", !.failed = what]

\* the operator deletes the topic on the Sink
MediaTopicDeleted ==
  /\ chatMappings[UserJid] \in sinkTopics
  /\ sinkTopics' = sinkTopics \ {chatMappings[UserJid]}
  /\ UNCHANGED <<MediaOthers, chatMappings, db, mediaVars>>

\* syncMessage hands a media message of a mapped conversation to
\* handleWhatsAppMedia(whatsappMsg, mediaTypeHint, topicId)
MediaArrives(hint, named) ==
  /\ media.pc \in {"idle", "returned"}
  /\ mediaSeen < MaxMedia
  /\ chatMappings[UserJid] # NoTopic
  /\ named => hint = "document"
  /\ mediaSeen' = mediaSeen + 1
  /\ media' = [NoMedia EXCEPT !.pc = "download", !.n = mediaSeen + 1, !.hint = hint,
                              !.named = named, !.topic = chatMappings[UserJid]]
  /\ UNCHANGED <<MediaOthers, chatMappings, db, sinkTopics, tempDir, downloads, mediaSink>>

\* _downloadWhatsAppMediaContent answered: a buffer, which is written to
\* the scratch file, or nothing, which throws
MediaDownloaded(ok) ==
  /\ media.pc = "download"
  /\ IF ok
       THEN /\ tempDir' = tempDir \cup {ScratchName(media.named)}
            /\ downloads' = downloads + 1
            /\ media' = [media EXCEPT !.pc = IF media.hint = "sticker" THEN "sticker" ELSE "send",
                                      !.file = ScratchName(media.named)]
       ELSE /\ MediaFails("download")
            /\ UNCHANGED <<tempDir, downloads>>
  /\ UNCHANGED <<MediaOthers, chatMappings, db, sinkTopics, mediaSeen, mediaSink>>

\* sendPhoto, sendVideo, sendAudio or sendDocument answered; fs.unlink of the
\* scratch file follows the send that succeeded
MediaSent(r, created) ==
  /\ media.pc = "send"
  /\ r \in MediaSendResults
  /\ CASE r = "ok" -> /\ mediaSink' = Append(mediaSink, [n |-> media.n, kind |-> media.hint])
                      /\ tempDir' = tempDir \ {media.file}
                      /\ media' = [media EXCEPT !.pc = "returned"]
                      /\ UNCHANGED <<chatMappings, db, sinkTopics>>
       [] r = "gone" -> /\ MediaHeal(created)
                        /\ UNCHANGED <<mediaSink, tempDir>>
       [] r = "fails" -> /\ MediaFails("send")
                         /\ UNCHANGED <<mediaSink, tempDir, chatMappings, db, sinkTopics>>
  /\ UNCHANGED <<MediaOthers, mediaSeen, downloads>>

\* sendSticker answered; its rejection, whatever the reason, leads to the
\* conversion
StickerSent(r) ==
  /\ media.pc = "sticker"
  /\ r \in MediaSendResults
  /\ IF r = "ok"
       THEN /\ mediaSink' = Append(mediaSink, [n |-> media.n, kind |-> "sticker"])
            /\ tempDir' = tempDir \ {media.file}
            /\ media' = [media EXCEPT !.pc = "returned"]
       ELSE /\ media' = [media EXCEPT !.pc = "convert"]
            /\ UNCHANGED <<mediaSink, tempDir>>
  /\ UNCHANGED <<MediaOthers, chatMappings, db, sinkTopics, mediaSeen, downloads>>

\* sharp(filePath).png().toFile(pngPath) answered
StickerConverted(ok) ==
  /\ media.pc = "convert"
  /\ IF ok
       THEN /\ tempDir' = tempDir \cup {PngPath(media.file)}
            /\ media' = [media EXCEPT !.pc = "fallback"]
       ELSE /\ MediaFails("convert")
            /\ UNCHANGED tempDir
  /\ UNCHANGED <<MediaOthers, chatMappings, db, sinkTopics, mediaSeen, downloads, mediaSink>>

\* the sendPhoto of the fallback answered; the two unlinks follow the send
\* that succeeded
FallbackSent(r, created) ==
  /\ media.pc = "fallback"
  /\ r \in MediaSendResults
  /\ CASE r = "ok" -> /\ mediaSink' = Append(mediaSink, [n |-> media.n, kind |-> "photo"])
                      /\ tempDir' = tempDir \ {media.file, PngPath(media.file)}
                      /\ media' = [media EXCEPT !.pc = "returned"]
                      /\ UNCHANGED <<chatMappings, db, sinkTopics>>
       [] r = "gone" -> /\ MediaHeal(created)
                        /\ UNCHANGED <<mediaSink, tempDir>>
       [] r = "fails" -> /\ MediaFails("fallback")
                         /\ UNCHANGED <<mediaSink, tempDir, chatMappings, db, sinkTopics>>
  /\ UNCHANGED <<MediaOthers, mediaSeen, downloads>>

NextMedia ==
  \/ MediaTopicDeleted
  \/ \E hint \in MediaHints, named \in BOOLEAN : MediaArrives(hint, named)
  \/ \E ok \in BOOLEAN : MediaDownloaded(ok)
  \/ \E r \in SinkResults, created \in BOOLEAN : MediaSent(r, created)
  \/ \E r \in SinkResults : StickerSent(r)
  \/ \E ok \in BOOLEAN : StickerConverted(ok)
  \/ \E r \in SinkResults, created \in BOOLEAN : FallbackSent(r, created)

SpecMedia == InitMedia /\ [][NextMedia]_vars

\* C29 (as claimed): when handleWhatsAppMedia has returned, no scratch file
\* is left in the temp directory.
C29_ScratchDeleted == media.pc = "returned" => tempDir = {}

\* the success path alone: after a forward that was sent at the first attempt
\* the files written for it are gone
C29_DeletedOnSuccess ==
  (/\ media.pc = "returned" /\ media.failed = "none" /\ media.heals = 0
   /\ \E i \in 1..Len(mediaSink) : mediaSink[i].n = media.n)
    => (media.file \notin tempDir /\ PngPath(media.file) \notin tempDir)

\* the Sink send failed and the scratch file is still there
C29_LeftAfterSendFailure ==
  media.pc = "returned" /\ media.failed = "send" /\ media.file \in tempDir

\* the first forward was healed and sent, and a scratch file is still there
C29_LeftAfterHeal ==
  /\ media.pc = "returned" /\ media.n = 1 /\ media.heals = 1 /\ media.failed = "none"
  /\ Len(mediaSink) = 1
  /\ tempDir # {}

\* C30 (as claimed): when handleWhatsAppMedia has returned for a sticker that
\* was downloaded and whose topic was not deleted, the Sink has accepted a
\* message for it: the sticker, or the photo fallback.
C30_StickerNeverDropped ==
  (/\ media.pc = "returned" /\ media.hint = "sticker"
   /\ media.failed \in {"none", "convert"} /\ media.heals = 0
   /\ media.topic \in sinkTopics)
    => \E i \in 1..Len(mediaSink) : mediaSink[i].n = media.n /\ mediaSink[i].kind \in {"sticker", "photo"}

\* the same without a failing conversion: a sticker that the Sink refuses goes
\* out as a photo
C30_FallbackWhenConverted ==
  (/\ media.pc = "returned" /\ media.hint = "sticker"
   /\ media.failed = "none" /\ media.heals = 0
   /\ media.topic \in sinkTopics)
    => \E i \in 1..Len(mediaSink) : mediaSink[i].n = media.n /\ mediaSink[i].kind \in {"sticker", "photo"}

\* the conversion failed, the topic exists, and the sticker is dropped
C30_DroppedOnConversion ==
  /\ media.pc = "returned" /\ media.hint = "sticker" /\ media.failed = "convert"
  /\ media.topic \in sinkTopics
  /\ \A i \in 1..Len(mediaSink) : mediaSink[i].n # media.n

\* ---------------------------------------------- SpecPresence: claim C34
\* C34 (as claimed): every "composing" presence that sendTypingPresence asks
\* for and every "available" presence that the timer of handleTelegramMessage
\* asks for is handed to the Source, whatever was sent to the conversation
\* shortly before.
C34_TypingAlwaysShown ==
  presenceCall.type \in {"composing", "available"} => presenceCall.sent

\* the operator's second message within a second of an update: no "composing"
C34_ComposingDropped ==
  /\ presenceCall.type = "composing" /\ ~presenceCall.sent
  /\ handling[presenceCall.jid] = "forwarding"

\* the "available" of a forward is dropped less than a second after an update
C34_AvailableDropped ==
  /\ presenceCall.type = "available" /\ ~presenceCall.sent

\* with no update of the conversation in the second before, the presence goes out
C34_ShownWhenQuiet ==
  [][(presenceCall' # presenceCall /\ now - lastPresenceUpdate[presenceCall'.jid] >= PresenceWindow)
       => presenceCall'.sent]_vars

\* ------------------------------------------------------ Spec: claim C35
\* C35: from an empty store, no two conversations are mapped to the same
\* topic, so the conversations that findWhatsAppJidByTopic can return for a
\* topic are one or none; a conversation has one entry, chatMappings being a
\* Map.
C35_UniqueOwner ==
  /\ \A c, d \in Chats : (c # d /\ IsMapped(c)) => chatMappings[c] # chatMappings[d]
  /\ \A tp \in 1..Len(sinkCreated) : Cardinality(JidsOfTopic(tp)) <= 1

\* C35 witness: both conversations are mapped, one of them to a topic that
\* was made after a healing
C35_Witness ==
  /\ \A c \in Chats : IsMapped(c)
  /\ Len(sinkCreated) >= 3
  /\ \E tp \in 1..Len(sinkCreated) : JidsOfTopic(tp) = {}

\* ------------------------------------------------------ Spec: claim C36
\* the save of a mutation of the mapping of chat c is in flight: the creation
\* has set the mapping, or a task other than t has deleted it, and awaits
\* saveMappingsToDb
FlushInFlight(c, t) ==
  \/ creation[c].pc = "save"
  \/ \E u \in Tasks \ {t} : task[u].pc = "healSave" /\ task[u].jc = c

\* C36 (as claimed): no task reads the mapping of a conversation in
\* getOrCreateTopic while the save of a mutation of that mapping is in flight.
C36_NoReadDuringFlush ==
  [][\A t \in Tasks : CallsTopic(t) => ~FlushInFlight(task'[t].jc, t)]_vars

\* a task got a mapped topic from getOrCreateTopic while the save of that
\* mapping was in flight
C36_ReadNewMapping ==
  \E t \in Tasks :
    /\ task[t].pc = "send" /\ task[t].epoch = -1
    /\ creation[task[t].chat].pc = "save"
    /\ task[t].topic = creation[task[t].chat].topic

\* the document in memory is written in the step that changes the mapping
C36_DocumentInStep == db.chatMappings = chatMappings

\* ------------------------------------------------------ Spec: claim C37
\* a text forwarder that has returned after "thread not found" on its first
\* send, with no other failure and, where it recreated the topic, with a
\* recreation that gave a topic
C37_Case(tk) ==
  /\ tk.pc = "done" /\ tk.kind = "text"
  /\ tk.tnfs = 1 /\ tk.errs = 0
  /\ tk.heals = 1 => tk.ret # NoTopic

\* C37 (as claimed): every such text was sent again and delivered.
C37_NoTextLostToHealing ==
  \A t \in Tasks : C37_Case(task[t]) => (task[t].sends = 2 /\ task[t].delivered # NoTopic)

\* two texts of one conversation met the deleted topic: one healed and was
\* delivered, the other found no conversation for the topic and was dropped
C37_DroppedByOtherHeal ==
  \E t, u \in Tasks :
    /\ t # u /\ task[t].chat = task[u].chat
    /\ C37_Case(task[t]) /\ task[t].heals = 0 /\ task[t].sends = 1 /\ task[t].delivered = NoTopic
    /\ task[u].kind = "text" /\ task[u].dels = 1 /\ task[u].pc = "done" /\ task[u].delivered # NoTopic

\* a text that healed on its own is delivered
C37_LoneTextDelivered ==
  \A t \in Tasks : (C37_Case(task[t]) /\ task[t].heals = 1) => task[t].delivered # NoTopic

\* ------------------------------------------------------ Spec: claim C38
\* the creation of chat c has mapped topic tp and not yet called
\* sendWelcomeMessage: it awaits the save
BeforeWelcome(c, tp) == creation[c].pc = "save" /\ creation[c].topic = tp

\* C38 (as claimed), with the welcome message enabled: no forwarder's message
\* is delivered to a new topic while the creation of that topic has not yet
\* reached sendWelcomeMessage.
C38_WelcomeFirst ==
  [][\A t \in Tasks :
       (welcomeMessage /\ task'[t].delivered # task[t].delivered) =>
         \A c \in Chats : ~BeforeWelcome(c, task'[t].delivered)]_vars

\* a message was delivered to the new topic and the creation still awaits its
\* save: the welcome message has not been sent
C38_ForwardedBeforeWelcome ==
  /\ welcomeMessage
  /\ \E t \in Tasks : task[t].delivered # NoTopic /\ BeforeWelcome(task[t].chat, task[t].delivered)

\* the callers that awaited the creation are served after sendWelcomeMessage
\* returned
C38_WaitersAfterWelcome ==
  [][\A t \in Tasks :
       (task'[t].delivered # task[t].delivered /\ task[t].epoch >= 0 /\ task[t].heals = 0) =>
         \A c \in Chats : creation[c].topic # task'[t].delivered]_vars

\* ------------------------------------------------------ Spec: claim C40
\* in this step the create-topic call of the creation that task t started
\* after its heal deletion fails, and t resumes with null
HealCreateFails(t) ==
  /\ task[t].pc = "awaitTopic" /\ task[t].cont = "heal"
  /\ creation[task[t].jc].pc = "create"
  /\ createFails'[task[t].jc] = createFails[task[t].jc] + 1

\* in this step an inbound message arrives for a conversation that has no
\* mapping and no creation in flight, the bot being configured
ArrivesUnmapped(t, c) ==
  /\ cfg = "ok"
  /\ task[t].pc = "idle" /\ task'[t].pc # "idle"
  /\ task'[t].kind \in {"text", "media"} /\ task'[t].chat = c
  /\ ~IsMapped(c) /\ ~HasPendingCreation(c)

\* C40: when the create-topic call after a heal deletion fails, the forwarder
\* returns without another send and without a delivery, the conversation has
\* no mapping in chatMappings and in the document and no creation in flight;
\* and an inbound message for a conversation in that state starts a creation,
\* which calls createForumTopic (after groupMetadata for a group).
C40_FailedHealDrops ==
  [][/\ \A t \in Tasks :
          HealCreateFails(t) =>
            /\ task'[t].pc = "done" /\ task'[t].sends = task[t].sends
            /\ task'[t].delivered = NoTopic
            /\ chatMappings'[task[t].jc] = NoTopic
            /\ db'.chatMappings[task[t].jc] = NoTopic
            /\ creatingTopics'[task[t].jc] = 0
     /\ \A t \in Tasks, c \in Chats :
          ArrivesUnmapped(t, c) =>
            /\ task'[t].pc = "awaitTopic"
            /\ creatingTopics'[c] = Len(promises[c]) + 1
            /\ creation'[c].pc = (IF IsGroup(c) THEN "meta" ELSE "create")
    ]_vars

\* C40 witness: a text was dropped by a failed recreation, and a later
\* message of the conversation has had a topic created and was delivered
C40_Witness ==
  \E t, u \in Tasks :
    /\ t < u /\ task[t].chat = task[u].chat
    /\ task[t].pc = "done" /\ task[t].kind = "text" /\ task[t].dels = 1 /\ task[t].heals = 1
    /\ task[t].ret = NoTopic /\ task[t].sends = 1 /\ task[t].delivered = NoTopic
    /\ task[u].pc = "done" /\ task[u].creates = 1 /\ task[u].delivered # NoTopic
    /\ ~task[u].hit0

\* ---------------------------------------------------- SpecCalls: claim C33
\* C33 (as claimed): no call of handleCallNotification ends as a rejection.
C33_CallHandlerNeverRejects ==
  \A j \in 1..Len(callLog) : ~callLog[j].rejected

\* a call event was rejected, and the next event of the same call, within the
\* 30 s, is held back: the call is never notified
C33_RejectedThenHeldBack ==
  \E j \in 2..Len(callLog) :
    /\ callLog[j - 1].rejected /\ callLog[j - 1].delivered = 0
    /\ callLog[j].key = callLog[j - 1].key /\ ~callLog[j].notified

\* ---------------------------------------------------------------------------
\* SpecSync: syncMessage for the messages of the conversation UserJid, those
\* of the contact and those of the bridge's own account (key.fromMe), up to
\* the read-receipt queue.
\* ---------------------------------------------------------------------------

MaxSync == 3

\* the payloads of the dispatch that are followed here
SyncKinds == {"text", "image", "sticker"}

\* the outbound marker: `📤 You: ${text}` for a text, the caption
\* `📤 You: ...` or "📤 You sent media" for media sent with opts; sendSticker
\* is called with { message_thread_id } alone
Tagged(own, kind) == own /\ kind # "sticker"

InitSync ==
  /\ cfg = "ok"
  /\ welcomeMessage = TRUE
  /\ chatMappings \in {[c \in Chats |-> IF c = UserJid THEN tp ELSE NoTopic] : tp \in {NoTopic, 1}}
  /\ userMappings = [c \in {UserJid} |-> 0]
  /\ db = saveMappingsToDb(chatMappings, userMappings, {})
  /\ creatingTopics = [c \in Chats |-> 0]
  /\ promises = [c \in Chats |-> <<>>]
  /\ creation = [c \in Chats |-> [pc |-> "idle", topic |-> NoTopic]]
  /\ task = [t \in Tasks |-> IdleTask]
  /\ sinkTopics = {chatMappings[UserJid]} \ {NoTopic}
  /\ sinkCreated = <<>>
  /\ createFails = [c \in Chats |-> 0]
  /\ sinkDeletes = [c \in Chats |-> 0]
  /\ FilterStart
  /\ AuthStart({})
  /\ RouteStart /\ E2EStart /\ StoreStart /\ ShutdownStart
  /\ PresenceStart /\ ReceiptStart /\ CallStart /\ StatusStart /\ RecreateStart /\ MediaStart
  /\ RestoreStart
  /\ sendOutgoingMessages \in BOOLEAN
  /\ SyncLogsStart

SyncOthers == <<cfg, welcomeMessage, creatingTopics, promises, creation, task,
                sinkCreated, createFails, sinkDeletes, filterVars, authVars, routeVars,
                e2eVars, storeVars, shutdownVars, presenceVars, receiptVars, callVars,
                statusVars, recreateVars, mediaVars, sendOutgoingMessages, restoreVars>>

\* the id createForumTopic gives the next topic
SyncNewTopic == Len(syncMade) + 2

\* the end of syncMessage for a message of the contact:
\* if (whatsappMsg.key?.id && features.readReceipts !== false)
\*   queueMessageForReadReceipt(sender, whatsappMsg.key)
\* syncOutgoingMessage returns into the `return` of the isFromMe branch
SyncQueue(m) == IF m.own THEN syncQueued ELSE Append(syncQueued, [n |-> m.n, own |-> m.own])

\* the operator deletes the topic of the conversation on the Sink
SyncTopicDeleted ==
  /\ chatMappings[UserJid] \in sinkTopics
  /\ sinkTopics' = sinkTopics \ {chatMappings[UserJid]}
  /\ UNCHANGED <<SyncOthers, chatMappings, userMappings, db, sync, syncSeen, syncSink,
                 syncMade, syncProfiles, syncQueued>>

\* syncMessage(whatsappMsg, text) up to the dispatch on the payload.
\* fromMe: the mapping is looked up and syncOutgoingMessage tests the flag.
\* Otherwise createUserMapping, then getOrCreateTopic, which answers the
\* mapping, a topic it created, or null.
SyncArrives(own, kind, created) ==
  /\ sync.pc \in {"idle", "returned"}
  /\ syncSeen < MaxSync
  /\ syncSeen' = syncSeen + 1
  /\ LET n == syncSeen + 1
         was == chatMappings[UserJid]
         m == [NoSync EXCEPT !.n = n, !.own = own, !.kind = kind, !.mapped = was # NoTopic]
     IN IF own
          THEN /\ created
               /\ sync' = IF was # NoTopic /\ sendOutgoingMessages
                            THEN [m EXCEPT !.pc = "send", !.topic = was]
                            ELSE [m EXCEPT !.pc = "returned"]
               /\ UNCHANGED <<chatMappings, userMappings, db, sinkTopics, syncMade,
                              syncProfiles>>
          ELSE /\ syncProfiles' = Append(syncProfiles, [n |-> n, own |-> own])
               /\ userMappings' = [userMappings EXCEPT ![UserJid] = @ + 1]
               /\ (was # NoTopic) => created
               /\ IF was # NoTopic
                    THEN /\ sync' = [m EXCEPT !.pc = "send", !.topic = was]
                         /\ UNCHANGED <<chatMappings, sinkTopics, syncMade>>
                    ELSE IF created
                      THEN /\ chatMappings' = [chatMappings EXCEPT ![UserJid] = SyncNewTopic]
                           /\ sinkTopics' = sinkTopics \cup {SyncNewTopic}
                           /\ syncMade' = Append(syncMade, [n |-> n, own |-> own])
                           /\ sync' = [m EXCEPT !.pc = "send", !.topic = SyncNewTopic]
                      ELSE /\ sync' = [m EXCEPT !.pc = "returned"]
                           /\ UNCHANGED <<chatMappings, sinkTopics, syncMade>>
               /\ db' = saveMappingsToDb(chatMappings', userMappings', filters)
  /\ UNCHANGED <<SyncOthers, syncSink, syncQueued>>

\* the Sink answered the send of sendSimpleMessage or of sendMedia into an
\* existing topic: the message is in the topic, or the error is logged
\* (sendSimpleMessage returns null, the catch of sendMedia logs). Either way
\* the handler returns and syncMessage goes on to the read-receipt queue.
SyncSent(ok) ==
  /\ sync.pc = "send"
  /\ sync.topic \in sinkTopics
  /\ syncSink' = IF ok THEN Append(syncSink, [n |-> sync.n, own |-> sync.own,
                                             tagged |-> Tagged(sync.own, sync.kind),
                                             topic |-> sync.topic,
                                             mapped |-> sync.mapped])
                       ELSE syncSink
  /\ sync' = [sync EXCEPT !.pc = "returned", !.forwarded = ok]
  /\ syncQueued' = SyncQueue(sync)
  /\ UNCHANGED <<SyncOthers, chatMappings, userMappings, db, sinkTopics, syncSeen, syncMade,
                 syncProfiles>>

\* the Sink answered "message thread not found": sendSimpleMessage and
\* sendMedia delete the mapping, save, call getOrCreateTopic(sender,
\* whatsappMsg) and, with a topic, send once more
SyncHealed(created, ok) ==
  /\ sync.pc = "send"
  /\ sync.topic \notin sinkTopics
  /\ ~created => ~ok
  /\ chatMappings' = [chatMappings EXCEPT ![UserJid] = IF created THEN SyncNewTopic ELSE NoTopic]
  /\ sinkTopics' = IF created THEN sinkTopics \cup {SyncNewTopic} ELSE sinkTopics
  /\ db' = saveMappingsToDb(chatMappings', userMappings, filters)
  /\ syncMade' = IF created THEN Append(syncMade, [n |-> sync.n, own |-> sync.own])
                            ELSE syncMade
  /\ syncSink' = IF ok THEN Append(syncSink, [n |-> sync.n, own |-> sync.own,
                                             tagged |-> Tagged(sync.own, sync.kind),
                                             topic |-> SyncNewTopic,
                                             mapped |-> sync.mapped])
                       ELSE syncSink
  /\ sync' = [sync EXCEPT !.pc = "returned", !.forwarded = ok, !.heals = @ + 1,
                          !.topic = IF created THEN SyncNewTopic ELSE @]
  /\ syncQueued' = SyncQueue(sync)
  /\ UNCHANGED <<SyncOthers, userMappings, syncSeen, syncProfiles>>

NextSync ==
  \/ SyncTopicDeleted
  \/ \E own \in BOOLEAN, kind \in SyncKinds, created \in BOOLEAN : SyncArrives(own, kind, created)
  \/ \E ok \in BOOLEAN : SyncSent(ok)
  \/ \E created \in BOOLEAN, ok \in BOOLEAN : SyncHealed(created, ok)

SpecSync == InitSync /\ [][NextSync]_vars

\* C31 (as claimed): a message of the bridge's own account is in the Sink only
\* if sendOutgoingMessages is set and the conversation was mapped when it
\* arrived, it carries the outbound marker, and no topic was created, no
\* participant profile updated and no read receipt enqueued for it.
C31_OwnMessageMirroring ==
  /\ \A j \in 1..Len(syncSink) :
       syncSink[j].own => (sendOutgoingMessages /\ syncSink[j].mapped /\ syncSink[j].tagged)
  /\ \A j \in 1..Len(syncMade) : ~syncMade[j].own
  /\ \A j \in 1..Len(syncProfiles) : ~syncProfiles[j].own
  /\ \A j \in 1..Len(syncQueued) : ~syncQueued[j].own

\* a topic was created for a message of the own account, which is in it
C31_OwnMessageCreatedTopic ==
  \E j \in 1..Len(syncMade), k \in 1..Len(syncSink) :
    syncMade[j].own /\ syncSink[k].n = syncMade[j].n

\* a message of the own account is in the Sink without the outbound marker
C31_OwnMessageUntagged ==
  \E j \in 1..Len(syncSink) : syncSink[j].own /\ ~syncSink[j].tagged

\* the part of C31 that holds: an own message in the Sink had the flag and the
\* mapping, and no profile is updated and no receipt enqueued for one
C31_GatedAndNotQueued ==
  /\ \A j \in 1..Len(syncSink) :
       syncSink[j].own => (sendOutgoingMessages /\ syncSink[j].mapped)
  /\ \A j \in 1..Len(syncProfiles) : ~syncProfiles[j].own
  /\ \A j \in 1..Len(syncQueued) : ~syncQueued[j].own

\* C32 (as claimed): a key is in the read-receipt queue only if its message
\* was handled successfully, that is, is in the Sink.
C32_QueuedOnlyAfterSuccess ==
  \A j \in 1..Len(syncQueued) : \E k \in 1..Len(syncSink) : syncSink[k].n = syncQueued[j].n

\* the forward of a message of the contact failed and its key is queued
C32_FailedForwardQueued ==
  /\ sync.pc = "returned" /\ ~sync.own /\ ~sync.forwarded /\ sync.topic \in sinkTopics
  /\ \E j \in 1..Len(syncQueued) : syncQueued[j].n = sync.n

\* the part of C32 that holds: a message for which getOrCreateTopic returned
\* null is not queued
C32_UnresolvedNotQueued ==
  (sync.pc = "returned" /\ sync.topic = NoTopic) =>
    \A j \in 1..Len(syncQueued) : syncQueued[j].n # sync.n

\* ---------------------------------------------------------------------------
\* SpecRestore: the /restore command step by step, next to the saves of the
\* running bridge: the 5-minute interval and createUserMapping of an inbound
\* message.
\* ---------------------------------------------------------------------------

MaxRestores == 2
MaxPeriodic == 2

InitRestore == InitStore

\* the variables the steps of the restore command leave alone
RestoreOthers == <<cfg, welcomeMessage, creatingTopics, promises, creation, task, sinkTopics,
                   sinkCreated, createFails, sinkDeletes, clearing, addedSince, lastBlocked, out,
                   authVars, routeVars, e2e, sinkLog, shutdownVars, presenceVars, receiptVars,
                   callVars, statusVars, recreateVars, mediaVars, syncVars, offered>>

\* a saveMappingsToDb of another task ran between the two steps of the restore
Interleaved == IF restoring.pc = "saving" THEN [restoring EXCEPT !.saves = @ + 1] ELSE restoring

\* handleRestore from the pre-restore backup to the first await of the try:
\* global.db = backupData.database; await this.bridge.database.save(global.db)
handleRestore(backup) ==
  /\ restoring.pc \in {"idle", "done", "failed"}
  /\ restoring.n < MaxRestores
  /\ restoring' = [pc |-> "saving", n |-> restoring.n + 1, backup |-> backup, pre |-> db,
                   saves |-> 0]
  /\ db' = backup
  /\ storeOp' = "restore"
  /\ UNCHANGED <<RestoreOthers, chatMappings, profilePicCache, userMappings, contactMappings,
                 filters, disk, periodic>>

\* database.save resolved and the bridge reloads its tables from global.db as
\* it is now, or it rejected and the pre-restore backup is put back and saved
RestoreSaved(saved) ==
  /\ restoring.pc = "saving"
  /\ IF saved
       THEN /\ restoring' = [restoring EXCEPT !.pc = "done"]
            /\ disk' \in {restoring.backup, db}
            /\ Load(db)
            /\ UNCHANGED db
       ELSE /\ restoring' = [restoring EXCEPT !.pc = "failed"]
            /\ db' = restoring.pre
            /\ disk' \in {disk, db'}
            /\ UNCHANGED <<chatMappings, profilePicCache, userMappings, contactMappings,
                           filters>>
  /\ storeOp' = IF saved THEN "restore" ELSE "restoreFailed"
  /\ UNCHANGED <<RestoreOthers, periodic>>

\* the save interval of client.js: database.save(global.db), then
\* telegramBridge.saveMappingsToDb()
PeriodicSave ==
  /\ periodic < MaxPeriodic
  /\ periodic' = periodic + 1
  /\ restoring' = Interleaved
  /\ storeOp' = "save"
  /\ UNCHANGED <<RestoreOthers, chatMappings, profilePicCache, userMappings, contactMappings,
                 filters>>
  /\ Save

\* createUserMapping of an inbound message handled meanwhile
InboundUserMapping ==
  /\ userMappings[UserJid] < MaxInbound
  /\ restoring' = Interleaved
  /\ storeOp' = "mutation"
  /\ userMappings' = [userMappings EXCEPT ![UserJid] = @ + 1]
  /\ UNCHANGED <<RestoreOthers, chatMappings, profilePicCache, contactMappings, filters,
                 periodic>>
  /\ Save

NextRestore ==
  \/ \E backup \in StoredDocuments : handleRestore(backup)
  \/ \E saved \in BOOLEAN : RestoreSaved(saved)
  \/ PeriodicSave
  \/ InboundUserMapping

SpecRestore == InitRestore /\ [][NextRestore]_vars

\* the restore command completes successfully in this step
RestoreCompletes == restoring.pc = "saving" /\ restoring'.pc = "done"

\* the tables in memory and the bridge document are those of the backup
RestoredFrom(backup) ==
  /\ chatMappings' = LoadedTopics(backup)
  /\ userMappings' = backup.userMappings
  /\ contactMappings' = backup.contactMappings
  /\ filters' = backup.filters
  /\ db' = backup

\* C39 (as claimed): when /restore completes successfully, the mappings,
\* contacts and filters in memory and the persisted bridge section are those
\* of the backup, whatever saveMappingsToDb ran meanwhile.
C39_RestoreWinsOverSaves ==
  [][RestoreCompletes => RestoredFrom(restoring.backup)]_vars

\* a restore of a backup that maps UserJid completed, a save ran during it,
\* and the conversation is mapped neither in memory nor in the document
C39_BackupMappingLost ==
  /\ restoring.pc = "done" /\ restoring.saves > 0 /\ storeOp = "restore"
  /\ restoring.backup.chatMappings[UserJid].shape # "absent"
  /\ chatMappings[UserJid] = NoTopic
  /\ db.chatMappings[UserJid].shape = "absent"

\* the part of C39 that holds: a restore during which no save ran leaves the
\* tables and the document as the backup has them
C39_QuietRestore ==
  [][(RestoreCompletes /\ restoring.saves = 0) => RestoredFrom(restoring.backup)]_vars
====
